---------------------------- MODULE Spec2Model ----------------------------
(***************************************************************************)
(* Model of the odds-analysis engine of oddscli (app/services/ev.py):      *)
(* odds conversions, the no-vig market consensus, and the +EV, arbitrage   *)
(* and middle detectors, driven by an odds feed that changes the quotes    *)
(* of an event between scans.                                              *)
(*                                                                         *)
(* Numbers.  Python floats are modelled as exact rationals <<n, d>> in     *)
(* lowest terms with d > 0.  A division by zero is the pair <<1, 0>>       *)
(* (ZeroDivisionError): every operator that receives it hands it on, as    *)
(* the exception propagates to the caller in the code.  Points (lines)     *)
(* are counted in half points: 441 is the line 220.5.  An absent optional  *)
(* value (None) is the empty tuple <<>>, a present one is <<v>>.           *)
(***************************************************************************)
EXTENDS Integers, Sequences, FiniteSets, TLC

VARIABLES
    quotes,     \* the odds snapshot of the event: a set of quote records
    feed,       \* the last feed update applied to the snapshot
    inv,        \* the engine call in progress or returned: its arguments and result
    prev        \* the result of the scan made before the last feed update

vars == <<quotes, feed, inv, prev>>

---------------------------------------------------------------------------
(* Exact rational arithmetic                                               *)

Abs(x) == IF x < 0 THEN -x ELSE x

RECURSIVE GCD(_, _)
GCD(a, b) == IF b = 0 THEN a ELSE GCD(b, a % b)

\* n/d in lowest terms, the sign carried by the numerator
Rat(n, d) ==
    LET g == GCD(Abs(n), Abs(d))
        s == IF d < 0 THEN -1 ELSE 1
    IN  <<(s * n) \div g, (s * d) \div g>>

RInt(n) == <<n, 1>>

\* the common factor of two denominators (1 when both are 0)
Common(a, b) == IF a = 0 /\ b = 0 THEN 1 ELSE GCD(Abs(a), Abs(b))

RAdd(x, y) ==
    LET g == Common(x[2], y[2])
    IN  Rat(x[1] * (y[2] \div g) + y[1] * (x[2] \div g), (x[2] \div g) * y[2])
RSub(x, y) == RAdd(x, <<-y[1], y[2]>>)
RMul(x, y) ==
    LET g == Common(x[1], y[2])
        h == Common(y[1], x[2])
    IN  Rat((x[1] \div g) * (y[1] \div h), (x[2] \div h) * (y[2] \div g))
RLt(x, y) ==
    LET g == Common(x[2], y[2])
    IN  x[1] * (y[2] \div g) < y[1] * (x[2] \div g)
RLe(x, y) == ~RLt(y, x)

\* x / y as Python computes it: a zero divisor raises
ZeroDivisionError == <<1, 0>>
Raised(x) == x[2] = 0
RDiv(x, y) == IF y[1] = 0 THEN ZeroDivisionError ELSE RMul(x, <<y[2], y[1]>>)

RECURSIVE RSum(_)
RSum(s) == IF s = <<>> THEN RInt(0) ELSE RAdd(Head(s), RSum(Tail(s)))

\* the sum of f over the set S of its arguments
RECURSIVE RSumOver(_, _)
RSumOver(f, S) ==
    IF S = {} THEN RInt(0)
    ELSE LET x == CHOOSE x \in S : TRUE IN RAdd(f[x], RSumOver(f, S \ {x}))

---------------------------------------------------------------------------
(* Odds conversion primitives                                              *)

\* def american_to_decimal(american)
american_to_decimal(american) ==
    IF american >= 100
    THEN RAdd(RDiv(RInt(american), RInt(100)), RInt(1))
    ELSE LET q == RDiv(RInt(100), RInt(Abs(american)))
         IN  IF Raised(q) THEN ZeroDivisionError ELSE RAdd(q, RInt(1))

\* american_to_implied_prob with the two branches exchanged
american_to_implied_prob_Swapped(american) ==
    IF american < 0
    THEN RDiv(RInt(100), RInt(Abs(american) + 100))
    ELSE RDiv(RInt(american), RInt(american + 100))

\* def american_to_implied_prob(american)
american_to_implied_prob(american) ==
    IF american < 0
    THEN RDiv(RInt(Abs(american)), RInt(Abs(american) + 100))
    ELSE RDiv(RInt(100), RInt(american + 100))

\* def american_to_implied_prob(american), for odds that are not whole numbers
american_to_implied_prob_rational(american) ==
    LET abs_american == IF american[1] < 0 THEN <<-american[1], american[2]>> ELSE american
    IN  IF RLt(american, RInt(0))
        THEN RDiv(abs_american, RAdd(abs_american, RInt(100)))
        ELSE RDiv(RInt(100), RAdd(american, RInt(100)))

\* prob_to_american without the sign of a favourite
prob_to_american_Unsigned(prob) ==
    IF RLe(prob, RInt(0)) \/ RLe(RInt(1), prob)
    THEN RInt(0)
    ELSE IF RLe(Rat(1, 2), prob)
         THEN RMul(RInt(100), RDiv(prob, RSub(RInt(1), prob)))
         ELSE RMul(RInt(100), RDiv(RSub(RInt(1), prob), prob))

\* def prob_to_american(prob)
prob_to_american(prob) ==
    IF RLe(prob, RInt(0)) \/ RLe(RInt(1), prob)
    THEN RInt(0)
    ELSE IF RLe(Rat(1, 2), prob)
         THEN RMul(RInt(-100), RDiv(prob, RSub(RInt(1), prob)))
         ELSE RMul(RInt(100), RDiv(RSub(RInt(1), prob), prob))


---------------------------------------------------------------------------
(* Sequences used as Python lists and insertion-ordered dicts              *)

RECURSIVE Flatten(_)
Flatten(ss) == IF ss = <<>> THEN <<>> ELSE Head(ss) \o Flatten(Tail(ss))

\* the distinct elements of s, in the order of their first occurrence
\* (the key order of a dict filled with setdefault)
RECURSIVE Distinct(_)
Distinct(s) ==
    IF s = <<>> THEN <<>>
    ELSE LET r == Distinct(SubSeq(s, 1, Len(s) - 1))
             x == s[Len(s)]
         IN  IF \E i \in 1..Len(r) : r[i] = x THEN r ELSE Append(r, x)

Range(s) == {s[i] : i \in 1..Len(s)}

\* list.sort(key=..., reverse=True) on a list of [key, item] pairs: stable,
\* descending in the rational key
RECURSIVE InsertDesc(_, _)
InsertDesc(sorted, x) ==
    IF sorted = <<>> THEN <<x>>
    ELSE IF RLt(Head(sorted).key, x.key)
         THEN <<x>> \o sorted
         ELSE <<Head(sorted)>> \o InsertDesc(Tail(sorted), x)

RECURSIVE SortPairsDesc(_)
SortPairsDesc(s) ==
    IF s = <<>> THEN <<>>
    ELSE InsertDesc(SortPairsDesc(SubSeq(s, 1, Len(s) - 1)), s[Len(s)])

\* SortDesc leaving the items in the order they were appended
SortDesc_Unsorted(s, field) == s

\* the items sorted on the field named `field`
SortDesc(s, field) ==
    LET sorted == SortPairsDesc([i \in 1..Len(s) |-> [key |-> s[i][field], item |-> s[i]]])
    IN  [i \in 1..Len(sorted) |-> sorted[i].item]

---------------------------------------------------------------------------
(* Data model (app/api/models.py) and the event built from the snapshot    *)

None == <<>>
Some(v) == <<v>>

\* bookmakers in the order the API lists them on an event
BookKeys == <<"book_a", "book_b", "book_c", "book_d", "book_e">>
NumBooks == 3
Books == SubSeq(BookKeys, 1, NumBooks)

\* markets in the order a bookmaker lists them
MarketOrder == <<"h2h", "spreads", "totals", "player_points">>

\* class OutcomeOdds: name, price, point, description
OutcomeOdds(name, price, point, description) ==
    [name |-> name, price |-> price, point |-> point, description |-> description]

\* the outcomes the feed can list in a market, in the order a bookmaker lists them
Outcome(market, name, point, description) ==
    [market |-> market, name |-> name, point |-> point, description |-> description]

Listing == <<
    Outcome("h2h", "Lakers", None, ""),
    Outcome("h2h", "Celtics", None, ""),
    Outcome("spreads", "Lakers", Some(-6), ""),
    Outcome("spreads", "Celtics", Some(6), ""),
    Outcome("spreads", "Lakers", Some(-9), ""),
    Outcome("spreads", "Celtics", Some(9), ""),
    Outcome("spreads", "Lakers", Some(6), ""),
    Outcome("spreads", "Celtics", Some(-6), ""),
    Outcome("totals", "Over", Some(441), ""),
    Outcome("totals", "Under", Some(441), ""),
    Outcome("totals", "Over", Some(463), ""),
    Outcome("totals", "Under", Some(463), ""),
    Outcome("totals", "Over", Some(471), ""),
    Outcome("totals", "Under", Some(471), ""),
    Outcome("player_points", "Over", Some(51), "LeBron James"),
    Outcome("player_points", "Under", Some(51), "LeBron James"),
    Outcome("player_points", "Over", Some(51), "Jayson Tatum"),
    Outcome("player_points", "Under", Some(51), "Jayson Tatum"),
    Outcome("player_points", "Over", Some(55), "LeBron James"),
    Outcome("player_points", "Under", Some(55), "LeBron James"),
    Outcome("player_points", "Over", Some(55), "Jayson Tatum"),
    Outcome("player_points", "Under", Some(55), "Jayson Tatum"),
    Outcome("player_points", "Over", Some(51), ""),
    Outcome("totals", "Over", None, "") >>

\* a quote of the snapshot: one bookmaker's price for one listed outcome
Quote(book, o, price) ==
    [book |-> book, market |-> o.market, name |-> o.name, point |-> o.point,
     description |-> o.description, price |-> price]

QuoteOf(qs, book, o) ==
    CHOOSE q \in qs : q.book = book /\ Outcome(q.market, q.name, q.point, q.description) = o

Quoted(qs, book, o) ==
    \E q \in qs : q.book = book /\ Outcome(q.market, q.name, q.point, q.description) = o

\* class Market: key and outcomes
MarketOf(qs, book, market) ==
    LET listed == SelectSeq(Listing, LAMBDA o : o.market = market /\ Quoted(qs, book, o))
    IN  [key |-> market,
         outcomes |-> [i \in 1..Len(listed) |->
                         OutcomeOdds(listed[i].name, QuoteOf(qs, book, listed[i]).price,
                                     listed[i].point,
                                     IF listed[i].description = "" THEN None
                                     ELSE Some(listed[i].description))]]

\* class Bookmaker: key, title and markets
BookmakerOf(qs, book) ==
    LET ms == SelectSeq(MarketOrder, LAMBDA m : \E q \in qs : q.book = book /\ q.market = m)
    IN  [key |-> book, title |-> book,
         markets |-> [i \in 1..Len(ms) |-> MarketOf(qs, book, ms[i])]]

\* class Event: the event as parsed from the feed's snapshot
EventOf(qs) ==
    LET bs == SelectSeq(Books, LAMBDA b : \E q \in qs : q.book = b)
    IN  [id |-> "event1", sport_key |-> "basketball_nba",
         home_team |-> "Lakers", away_team |-> "Celtics",
         bookmakers |-> [i \in 1..Len(bs) |-> BookmakerOf(qs, bs[i])]]

---------------------------------------------------------------------------
(* Market aggregation and the +EV detector                                 *)

\* def _get_market_outcomes(bookmaker, market_key): None is <<>>
get_market_outcomes(bookmaker, market_key) ==
    LET hits == SelectSeq(bookmaker.markets, LAMBDA m : m.key = market_key)
    IN  IF hits = <<>> THEN <<>> ELSE Head(hits).outcomes

\* def _effective_price(outcome, bm, dfs_books): dfs_books is a function from
\* book keys to prices, the empty function for None
effective_price(outcome, bm, dfs_books) ==
    IF bm.key \in DOMAIN dfs_books THEN dfs_books[bm.key] ELSE outcome.price

\* def _discover_market_keys(event); the keys are visited in MarketOrder
discover_market_keys(event) ==
    SelectSeq(MarketOrder, LAMBDA k :
        \E i \in 1..Len(event.bookmakers) :
            \E j \in 1..Len(event.bookmakers[i].markets) :
                event.bookmakers[i].markets[j].key = k)

\* the (bm, outcome) pairs of one market, in the order of the loops
\* "for bm in event.bookmakers: ... for outcome in outcomes"
MarketEntries(event, market_key) ==
    Flatten([i \in 1..Len(event.bookmakers) |->
        LET bm == event.bookmakers[i]
            outcomes == get_market_outcomes(bm, market_key)
        IN  [j \in 1..Len(outcomes) |-> [bm |-> bm, outcome |-> outcomes[j]]]])

\* a dict of lists filled with setdefault(key, []).append(entry), keys[i] being
\* the key of entries[i]: the keys in insertion order and the list at each key
DictOf(entries, keys) ==
    LET ks == Distinct(keys)
        keyed == [i \in 1..Len(entries) |-> [key |-> keys[i], entry |-> entries[i]]]
    IN  [keys |-> ks,
         at |-> [k \in Range(ks) |->
                   LET hits == SelectSeq(keyed, LAMBDA x : x.key = k)
                   IN  [i \in 1..Len(hits) |-> hits[i].entry]]]

\* f"{outcome.name}|{outcome.point}"
NamePointKey(e) == <<e.outcome.name, e.outcome.point>>
NamePointKeys(entries) == [i \in 1..Len(entries) |-> NamePointKey(entries[i])]

\* book_outcomes of _find_game_ev: the entries of a market keyed by name|point
BookOutcomes(event, market_key) ==
    DictOf(MarketEntries(event, market_key), NamePointKeys(MarketEntries(event, market_key)))


\* def _calculate_market_avg_no_vig(book_outcomes, dfs_books)
\* returns (no_vig_probs, book_counts)
calculate_market_avg_no_vig(book_outcomes, dfs_books) ==
    LET avg_probs == [k \in Range(book_outcomes.keys) |->
            [i \in 1..Len(book_outcomes.at[k]) |->
                american_to_implied_prob(
                    effective_price(book_outcomes.at[k][i].outcome,
                                    book_outcomes.at[k][i].bm, dfs_books))]]
        raw_probs == [k \in DOMAIN avg_probs |->
            RDiv(RSum(avg_probs[k]), RInt(Len(avg_probs[k])))]
        total == RSum([i \in 1..Len(book_outcomes.keys) |-> raw_probs[book_outcomes.keys[i]]])
    IN  [no_vig |-> IF RLt(RInt(0), total)
                    THEN [k \in DOMAIN raw_probs |-> RDiv(raw_probs[k], total)]
                    ELSE [k \in {} |-> RInt(0)],
         counts |-> [k \in DOMAIN avg_probs |-> Len(avg_probs[k])]]

\* an exception leaving the detector in place of a bet
Exc == [exc |-> "ZeroDivisionError"]
IsExc(item) == "exc" \in DOMAIN item

\* class EVBet (detected_at, the wall clock of the scan, is left out)
EVBet(event, bm, market_key, outcome, price, decimal_odds, no_vig_prob, fair_american, ev_pct, n_books, is_prop) ==
    [sport_key |-> event.sport_key, book |-> bm.key, book_title |-> bm.title,
     event_id |-> event.id, home_team |-> event.home_team, away_team |-> event.away_team,
     market |-> market_key, outcome_name |-> outcome.name, outcome_point |-> outcome.point,
     odds |-> price, decimal_odds |-> decimal_odds,
     implied_prob |-> american_to_implied_prob(price),
     no_vig_prob |-> no_vig_prob, fair_odds |-> fair_american,
     ev_percentage |-> ev_pct,
     edge |-> RSub(RMul(no_vig_prob, decimal_odds), RInt(1)),
     num_books |-> n_books,
     player_name |-> IF is_prop THEN outcome.description ELSE None,
     is_prop |-> is_prop]

\* the body of the loop "for bm, outcome in entries" of _emit_ev_bets
EmitEntry(event, market_key, e, no_vig_prob, fair_american, n_books, cfg, is_prop) ==
    IF cfg.selected_books # {} /\ e.bm.key \notin cfg.selected_books THEN <<>>
    ELSE LET price == effective_price(e.outcome, e.bm, cfg.dfs_books)
         IN  IF cfg.odds_range # None
                /\ (price < cfg.odds_range[1] \/ price > cfg.odds_range[2])
             THEN <<>>
             ELSE LET decimal_odds == american_to_decimal(price)
                  IN  IF Raised(decimal_odds) THEN <<Exc>>
                      ELSE LET ev_pct == RMul(RSub(RMul(no_vig_prob, decimal_odds), RInt(1)),
                                              RInt(100))
                           IN  IF RLe(cfg.ev_threshold, ev_pct)
                               THEN <<EVBet(event, e.bm, market_key, e.outcome, price,
                                            decimal_odds, no_vig_prob, fair_american,
                                            ev_pct, n_books, is_prop)>>
                               ELSE <<>>

\* def _emit_ev_bets(...): the bets appended to ev_bets
emit_ev_bets(event, market_key, book_outcomes, no_vig_probs, book_counts, cfg, is_prop) ==
    Flatten([i \in 1..Len(book_outcomes.keys) |->
        LET outcome_key == book_outcomes.keys[i]
        IN  IF outcome_key \notin DOMAIN no_vig_probs THEN <<>>
            ELSE LET no_vig_prob == no_vig_probs[outcome_key]
                 IN  IF RLe(no_vig_prob, RInt(0)) \/ RLe(RInt(1), no_vig_prob) THEN <<>>
                     ELSE Flatten([j \in 1..Len(book_outcomes.at[outcome_key]) |->
                            EmitEntry(event, market_key, book_outcomes.at[outcome_key][j],
                                      no_vig_prob, prob_to_american(no_vig_prob),
                                      book_counts[outcome_key], cfg, is_prop)])])

\* min(book_counts.values()) if book_counts else 0
MinBooks(book_counts) ==
    IF DOMAIN book_counts = {} THEN 0
    ELSE CHOOSE n \in {book_counts[k] : k \in DOMAIN book_counts} :
            \A k \in DOMAIN book_counts : n <= book_counts[k]

\* GameMarketEv accepting a market as soon as 2 bookmakers quote every outcome
GameMarketEv_TwoBooks(event, market_key, cfg) ==
    LET book_outcomes == BookOutcomes(event, market_key)
        r == calculate_market_avg_no_vig(book_outcomes, cfg.dfs_books)
    IN  IF book_outcomes.keys = <<>> THEN <<>>
        ELSE IF MinBooks(r.counts) < 2 THEN <<>>
        ELSE emit_ev_bets(event, market_key, book_outcomes, r.no_vig, r.counts, cfg, FALSE)

\* one market of _find_game_ev: the whole market is one book_outcomes dict
GameMarketEv(event, market_key, cfg) ==
    LET book_outcomes == BookOutcomes(event, market_key)
        r == calculate_market_avg_no_vig(book_outcomes, cfg.dfs_books)
    IN  IF book_outcomes.keys = <<>> THEN <<>>
        ELSE IF MinBooks(r.counts) < 3 THEN <<>>
        ELSE emit_ev_bets(event, market_key, book_outcomes, r.no_vig, r.counts, cfg, FALSE)

\* def _find_game_ev(event, ev_bets, now, selected_books, ev_threshold, dfs_books, odds_range)
find_game_ev(event, cfg) ==
    LET ks == discover_market_keys(event)
    IN  Flatten([i \in 1..Len(ks) |-> GameMarketEv(event, ks[i], cfg)])

\* f"{outcome.description}|{outcome.point}"
PairKey(e) == <<e.outcome.description, e.outcome.point>>
\* PairKeys without the player: the point alone
PairKeys_PointOnly(entries) == [i \in 1..Len(entries) |-> entries[i].outcome.point]

PairKeys(entries) == [i \in 1..Len(entries) |-> PairKey(entries[i])]
\* f"{outcome.description}|{outcome.name}|{outcome.point}"
PropOutcomeKey(e) == <<e.outcome.description, e.outcome.name, e.outcome.point>>
PropOutcomeKeys(entries) == [i \in 1..Len(entries) |-> PropOutcomeKey(entries[i])]

\* one (player, point) pair of _find_prop_ev
PropPairEv(event, market_key, pair_entries, cfg) ==
    LET pair_outcomes == DictOf(pair_entries, PropOutcomeKeys(pair_entries))
        r == calculate_market_avg_no_vig(pair_outcomes, cfg.dfs_books)
    IN  IF Len(pair_outcomes.keys) < 2 THEN <<>>
        ELSE IF MinBooks(r.counts) < 3 THEN <<>>
        ELSE emit_ev_bets(event, market_key, pair_outcomes, r.no_vig, r.counts, cfg, TRUE)

\* def _find_prop_ev(event, ev_bets, now, selected_books, ev_threshold, dfs_books, odds_range)
find_prop_ev(event, cfg) ==
    LET ks == discover_market_keys(event)
    IN  Flatten([i \in 1..Len(ks) |->
            LET described == SelectSeq(MarketEntries(event, ks[i]),
                                       LAMBDA e : e.outcome.description # None)
                pairs == DictOf(described, PairKeys(described))
            IN  Flatten([p \in 1..Len(pairs.keys) |->
                    PropPairEv(event, ks[i], pairs.at[pairs.keys[p]], cfg)])])

\* the value a detector returns: the sorted list, or the exception it raised
Returned(items, field) ==
    IF \E i \in 1..Len(items) : IsExc(items[i])
    THEN [raised |-> TRUE, value |-> <<>>]
    ELSE [raised |-> FALSE, value |-> SortDesc(items, field)]

\* def find_ev_bets(events, selected_books, ev_threshold, is_props, dfs_books, odds_range)
find_ev_bets(events, cfg) ==
    Returned(Flatten([i \in 1..Len(events) |->
                IF cfg.is_props THEN find_prop_ev(events[i], cfg)
                ELSE find_game_ev(events[i], cfg)]),
             "ev_percentage")

\* def compute_inline_ev(prices, counter_prices): (None, None) is None
compute_inline_ev(prices, counter_prices) ==
    IF Len(prices) < 3 \/ Len(counter_prices) < 3 THEN None
    ELSE LET avg_prob == RDiv(RSum([i \in 1..Len(prices) |->
                                 american_to_implied_prob(prices[i])]), RInt(Len(prices)))
             avg_counter == RDiv(RSum([i \in 1..Len(counter_prices) |->
                                 american_to_implied_prob(counter_prices[i])]),
                                 RInt(Len(counter_prices)))
             total == RAdd(avg_prob, avg_counter)
             no_vig_prob == RDiv(avg_prob, total)
             best == CHOOSE p \in Range(prices) : \A q \in Range(prices) : q <= p
             best_decimal == american_to_decimal(best)
         IN  IF RLe(total, RInt(0)) THEN None
             ELSE IF RLe(no_vig_prob, RInt(0)) \/ RLe(RInt(1), no_vig_prob) THEN None
             ELSE IF Raised(best_decimal) THEN Some(Exc)
             ELSE Some(<<prob_to_american(no_vig_prob),
                         RMul(RSub(RMul(no_vig_prob, best_decimal), RInt(1)), RInt(100))>>)


---------------------------------------------------------------------------
(* The engine's caller: calls on the current snapshot                      *)

Idle == [fn |-> "idle"]
NoFeed == [kind |-> "none"]

\* dfs_books=None
NoDfs == [b \in {} |-> 0]

\* the arguments of find_ev_bets other than the events
EvArgs(selected_books, ev_threshold, is_props, dfs_books, odds_range) ==
    [selected_books |-> selected_books, ev_threshold |-> ev_threshold,
     is_props |-> is_props, dfs_books |-> dfs_books, odds_range |-> odds_range]

\* the snapshots of the +EV scans: every bookmaker lists one of these sheets
Pair(market, point, description, over, under) ==
    {[o |-> Outcome(market, "Over", Some(point), description), price |-> over],
     [o |-> Outcome(market, "Under", Some(point), description), price |-> under]}

EvSheets ==
    { {},
      Pair("totals", 441, "", -100, -100),
      Pair("totals", 441, "", 200, -300),
      {[o |-> Outcome("totals", "Over", Some(441), ""), price |-> 200]},
      Pair("totals", 441, "", -100, -100) \cup Pair("totals", 463, "", -100, -100),
      Pair("totals", 441, "", -100, -100) \cup Pair("totals", 463, "", 200, -300),
      Pair("player_points", 51, "LeBron James", -100, -100),
      Pair("player_points", 51, "LeBron James", 200, -300) }

SnapshotOf(sheetOf) ==
    UNION {{Quote(b, x.o, x.price) : x \in sheetOf[b]} : b \in DOMAIN sheetOf}

Snapshots(sheets) == {SnapshotOf(f) : f \in [Range(Books) -> sheets]}

\* the settings the scans are made with
EvThresholds == {RInt(0), RInt(2), RInt(50)}

EvConfigs ==
    {EvArgs({}, t, p, NoDfs, None) : t \in EvThresholds, p \in BOOLEAN}
    \cup {EvArgs({"book_a"}, RInt(0), p, NoDfs, None) : p \in BOOLEAN}
    \cup {EvArgs({}, RInt(0), p, [b \in {"book_a"} |-> -300], None) : p \in BOOLEAN}
    \cup {EvArgs({}, RInt(0), FALSE, NoDfs, <<-150, 150>>),
          EvArgs({"book_a", "book_b"}, RInt(2), FALSE, [b \in {"book_b"} |-> 200],
                 <<-150, 250>>)}

InitEv ==
    /\ quotes \in Snapshots(EvSheets)
    /\ feed = NoFeed
    /\ inv = Idle
    /\ prev = Idle

\* the app scans the snapshot for +EV bets with its current settings
ScanEv ==
    /\ inv = Idle
    /\ \E cfg \in EvConfigs :
          inv' = [fn |-> "find_ev_bets", cfg |-> cfg,
                  ret |-> find_ev_bets(<<EventOf(quotes)>>, cfg)]
    /\ UNCHANGED <<quotes, feed, prev>>

\* _all_prices: the prices the books quote for one listed outcome
AllPrices(qs, o) ==
    LET bs == SelectSeq(Books, LAMBDA b : Quoted(qs, b, o))
    IN  [i \in 1..Len(bs) |-> QuoteOf(qs, bs[i], o).price]

OverUnder == {<<Listing[i], Listing[j]>> : i, j \in 1..Len(Listing)} \cap
    {<<Outcome(m, "Over", pt, d), Outcome(m, "Under", pt, d)>> :
        m \in {"totals", "player_points"}, pt \in {Some(441), Some(463), Some(51)},
        d \in {"", "LeBron James"}}

\* a table row computes the inline EV of one side against its counter side
InlineEv ==
    /\ inv = Idle
    /\ \E pair \in OverUnder, flip \in BOOLEAN :
          LET prices == AllPrices(quotes, pair[IF flip THEN 2 ELSE 1])
              counter_prices == AllPrices(quotes, pair[IF flip THEN 1 ELSE 2])
          IN  /\ prices # <<>> \/ counter_prices # <<>>
              /\ inv' = [fn |-> "compute_inline_ev", prices |-> prices,
                         counter_prices |-> counter_prices,
                         ret |-> compute_inline_ev(prices, counter_prices)]
    /\ UNCHANGED <<quotes, feed, prev>>

NextEv == ScanEv \/ InlineEv

SpecEv == InitEv /\ [][NextEv]_vars


---------------------------------------------------------------------------
(* Properties of the +EV detector                                          *)

EvScanned == inv.fn = "find_ev_bets" /\ ~inv.ret.raised
EvBets == inv.ret.value

\* the quotes of the outcome group of a quote: the same market and line, and in
\* prop mode the same player
GroupQuotes(qs, q, is_props) ==
    {g \in qs : /\ g.market = q.market
                /\ g.point = q.point
                /\ is_props => g.description = q.description}

\* the number of bookmakers quoting outcome `name` in a group
BooksOn(group, name) == Cardinality({g.book : g \in {x \in group : x.name = name}})

\* every outcome of the group is quoted by at least 3 bookmakers
Usable(group) == \A g \in group : BooksOn(group, g.name) >= 3

\* the quote a bet was emitted for
BetQuotes(qs, bet) ==
    {q \in qs : /\ q.book = bet.book /\ q.market = bet.market
                /\ q.name = bet.outcome_name /\ q.point = bet.outcome_point
                /\ bet.is_prop => Some(q.description) = bet.player_name}

\* the group of a quote as the entries of an event, keyed by outcome, and its
\* no-vig consensus from the raw quotes
GroupDict(qs, q, is_props) ==
    LET entries == SelectSeq(MarketEntries(EventOf(qs), q.market),
            LAMBDA e : /\ e.outcome.point = q.point
                       /\ is_props => e.outcome.description = Some(q.description))
    IN  IF is_props THEN DictOf(entries, PropOutcomeKeys(entries))
        ELSE DictOf(entries, NamePointKeys(entries))

QuoteKey(q, is_props) ==
    IF is_props THEN <<Some(q.description), q.name, q.point>> ELSE <<q.name, q.point>>

RawConsensus(qs, q, is_props) ==
    calculate_market_avg_no_vig(GroupDict(qs, q, is_props), NoDfs).no_vig[QuoteKey(q, is_props)]

\* C1: the no-vig probability and the fair odds of every bet a scan emits are those
\* of the consensus of the raw quotes of its market, whatever override map
\* (dfs_books) the scan was given.
C1_OverrideIsolation ==
    EvScanned =>
        \A i \in 1..Len(EvBets) : \A q \in BetQuotes(quotes, EvBets[i]) :
            LET market == IF inv.cfg.is_props
                          THEN GroupDict(quotes, q, TRUE)
                          ELSE BookOutcomes(EventOf(quotes), q.market)
                raw == calculate_market_avg_no_vig(market, NoDfs).no_vig[
                           QuoteKey(q, inv.cfg.is_props)]
            IN  /\ EvBets[i].no_vig_prob = raw
                /\ EvBets[i].fair_odds = prob_to_american(raw)

\* C2: no bet is emitted from a group in which some outcome is quoted by fewer
\* than 3 bookmakers, at any threshold and in both modes; every bet has
\* num_books >= 3; compute_inline_ev returns (None, None) when either side has
\* fewer than 3 prices.
C2_MinimumBooks ==
    /\ EvScanned =>
          \A i \in 1..Len(EvBets) :
              /\ EvBets[i].num_books >= 3
              /\ \A q \in BetQuotes(quotes, EvBets[i]) :
                    Usable(GroupQuotes(quotes, q, inv.cfg.is_props))
    /\ (inv.fn = "compute_inline_ev"
          /\ (Len(inv.prices) < 3 \/ Len(inv.counter_prices) < 3)) => inv.ret = None

\* a scan at threshold 0 of a snapshot in which only 2 bookmakers quote a group,
\* one of them at +200 against -100 (an apparent edge of 50%)
C2_Witness ==
    /\ EvScanned /\ inv.cfg.ev_threshold = RInt(0) /\ inv.cfg.selected_books = {}
    /\ inv.cfg.dfs_books = NoDfs /\ inv.cfg.odds_range = None
    /\ \E q \in quotes :
          /\ q.price = 200
          /\ inv.cfg.is_props = (q.description # "")
          /\ LET group == GroupQuotes(quotes, q, inv.cfg.is_props)
             IN  /\ BooksOn(group, "Over") = 2 /\ BooksOn(group, "Under") = 2
                 /\ \E g \in group : g.name = "Over" /\ g.price = -100

\* C3 (as stated): in game mode, when a market carries quotes at two or more
\* lines, the no-vig probabilities the scan assigns to the outcomes of one line
\* sum to 1.
MarketNoVig(qs, market, dfs_books) ==
    calculate_market_avg_no_vig(BookOutcomes(EventOf(qs), market),
                                dfs_books).no_vig

C3_LineIsOwnGroup ==
    (EvScanned /\ ~inv.cfg.is_props) =>
        \A q \in quotes :
            LET nv == MarketNoVig(quotes, q.market, inv.cfg.dfs_books)
                line == {k \in DOMAIN nv : k[2] = q.point}
            IN  (\E g \in quotes : g.market = q.market /\ g.point # q.point)
                => RSumOver(nv, line)
                   = RInt(1)


\* C4 (as stated): for every quote of a usable two-sided group whose book passes
\* the allow-list, the scan emits exactly one bet iff
\* (fair probability x decimal odds - 1) x 100 >= threshold and the price lies in
\* the odds range when one is set, the fair probability being the no-vig
\* consensus of the quote's own group; it emits none for a book outside the
\* allow-list or a quote failing either test.  Stated for scans without an
\* override map, where the raw price is the price of the bet.
BetsFor(q) == {i \in 1..Len(EvBets) : q \in BetQuotes(quotes, EvBets[i])}

Allowed(q) == inv.cfg.selected_books = {} \/ q.book \in inv.cfg.selected_books

InRange(q) ==
    inv.cfg.odds_range = None
    \/ (inv.cfg.odds_range[1] <= q.price /\ q.price <= inv.cfg.odds_range[2])

TwoSided(group) == {g.name : g \in group} = {"Over", "Under"}

ClaimedEv(q) ==
    RMul(RSub(RMul(RawConsensus(quotes, q, inv.cfg.is_props), american_to_decimal(q.price)),
              RInt(1)), RInt(100))

C4_EmitIff ==
    (EvScanned /\ inv.cfg.dfs_books = NoDfs) =>
        \A q \in {x \in quotes : inv.cfg.is_props => x.description # ""} :
            LET group == GroupQuotes(quotes, q, inv.cfg.is_props)
            IN  /\ ~Allowed(q) => BetsFor(q) = {}
                /\ (Usable(group) /\ TwoSided(group) /\ Allowed(q)) =>
                      IF RLe(inv.cfg.ev_threshold, ClaimedEv(q)) /\ InRange(q)
                      THEN Cardinality(BetsFor(q)) = 1
                      ELSE BetsFor(q) = {}


---------------------------------------------------------------------------
(* Arbitrage detector                                                      *)

\* class ArbBet
ArbBet(event, market_key, a, b, profit, imp_sum) ==
    [sport_key |-> event.sport_key, event_id |-> event.id,
     home_team |-> event.home_team, away_team |-> event.away_team,
     market |-> market_key,
     book_a |-> a.bm.key, book_a_title |-> a.bm.title, outcome_a |-> a.outcome.name,
     odds_a |-> a.price, point_a |-> a.outcome.point,
     book_b |-> b.bm.key, book_b_title |-> b.bm.title, outcome_b |-> b.outcome.name,
     odds_b |-> b.price, point_b |-> b.outcome.point,
     profit_pct |-> profit, implied_sum |-> imp_sum,
     player_name |-> None, is_prop |-> FALSE]

\* ArbLineKey putting every outcome of a market in one line group
ArbLineKey_OneGroup(market_key, outcome) == None

\* the line_key of an outcome in _find_market_arbs ("h2h" in market_key holds of
\* the featured markets only for h2h itself)
ArbLineKey(market_key, outcome) ==
    IF market_key = "h2h" THEN None
    ELSE IF outcome.point # None THEN Some(Abs(outcome.point[1]))
    ELSE None

\* BestOfSide keeping the lowest price of the side
RECURSIVE BestOfSide_Lowest(_, _)
BestOfSide_Lowest(entries, dfs_books) ==
    LET last == entries[Len(entries)]
        price == effective_price(last.outcome, last.bm, dfs_books)
        mine == [price |-> price, bm |-> last.bm, outcome |-> last.outcome]
    IN  IF Len(entries) = 1 THEN mine
        ELSE LET best == BestOfSide_Lowest(SubSeq(entries, 1, Len(entries) - 1), dfs_books)
             IN  IF price < best.price THEN mine ELSE best

\* best_per_side[side_key]: the first entry with the highest effective price
RECURSIVE BestOfSide(_, _)
BestOfSide(entries, dfs_books) ==
    LET last == entries[Len(entries)]
        price == effective_price(last.outcome, last.bm, dfs_books)
        mine == [price |-> price, bm |-> last.bm, outcome |-> last.outcome]
    IN  IF Len(entries) = 1 THEN mine
        ELSE LET best == BestOfSide(SubSeq(entries, 1, Len(entries) - 1), dfs_books)
             IN  IF price > best.price THEN mine ELSE best

\* the body of the loops over i < j of _find_market_arbs
ArbOfPair(event, market_key, a, b, min_profit_pct) ==
    LET imp_sum == RAdd(american_to_implied_prob(a.price), american_to_implied_prob(b.price))
        profit == RMul(RSub(RDiv(RInt(1), imp_sum), RInt(1)), RInt(100))
    IN  IF RLt(imp_sum, RInt(1)) /\ RLe(min_profit_pct, profit)
        THEN <<ArbBet(event, market_key, a, b, profit, imp_sum)>>
        ELSE <<>>

\* one line group of _find_market_arbs
ArbsOfGroup(event, market_key, entries, cfg) ==
    LET sides == DictOf(entries, NamePointKeys(entries))
        n == Len(sides.keys)
        best == [i \in 1..n |-> BestOfSide(sides.at[sides.keys[i]], cfg.dfs_books)]
    IN  IF n < 2 THEN <<>>
        ELSE Flatten([i \in 1..n |->
                Flatten([j \in 1..n |->
                    IF j > i
                    THEN ArbOfPair(event, market_key, best[i], best[j], cfg.min_profit_pct)
                    ELSE <<>>])])

\* def _find_market_arbs(event, market_key, arbs, min_profit_pct, dfs_books)
find_market_arbs(event, market_key, cfg) ==
    LET entries == MarketEntries(event, market_key)
        line_groups == DictOf(entries, [i \in 1..Len(entries) |->
                                           ArbLineKey(market_key, entries[i].outcome)])
    IN  Flatten([g \in 1..Len(line_groups.keys) |->
            ArbsOfGroup(event, market_key, line_groups.at[line_groups.keys[g]], cfg)])

Featured == {"h2h", "spreads", "totals"}

\* def find_arb_bets(events, min_profit_pct, dfs_books)
find_arb_bets(events, cfg) ==
    Returned(Flatten([i \in 1..Len(events) |->
                LET ks == SelectSeq(discover_market_keys(events[i]),
                                    LAMBDA k : k \in Featured)
                IN  Flatten([m \in 1..Len(ks) |-> find_market_arbs(events[i], ks[m], cfg)])]),
             "profit_pct")

ArbArgs(min_profit_pct, dfs_books) ==
    [min_profit_pct |-> min_profit_pct, dfs_books |-> dfs_books]

TwoWay(market, a, pa, b, pb, pricea, priceb) ==
    {[o |-> Outcome(market, a, pa, ""), price |-> pricea],
     [o |-> Outcome(market, b, pb, ""), price |-> priceb]}

ArbSheets ==
    { {},
      Pair("totals", 471, "", 108, -128),
      Pair("totals", 463, "", -128, 108),
      {[o |-> Outcome("totals", "Over", Some(471), ""), price |-> 108]},
      {[o |-> Outcome("totals", "Under", Some(463), ""), price |-> 108]},
      Pair("totals", 441, "", 200, -300),
      Pair("totals", 441, "", -300, 200),
      TwoWay("h2h", "Lakers", None, "Celtics", None, 200, -300),
      TwoWay("h2h", "Lakers", None, "Celtics", None, -300, 200),
      TwoWay("spreads", "Lakers", Some(-6), "Celtics", Some(6), -100, 108),
      TwoWay("spreads", "Lakers", Some(-9), "Celtics", Some(9), 108, -128) }

ArbConfigs ==
    {ArbArgs(Rat(1, 10), NoDfs), ArbArgs(RInt(50), NoDfs), ArbArgs(RInt(0), NoDfs),
     ArbArgs(Rat(1, 10), [b \in {"book_a"} |-> 200])}

InitArb ==
    /\ quotes \in Snapshots(ArbSheets)
    /\ feed = NoFeed
    /\ inv = Idle
    /\ prev = Idle

\* the app scans the snapshot for arbitrages
ScanArb ==
    /\ inv = Idle
    /\ \E cfg \in ArbConfigs :
          inv' = [fn |-> "find_arb_bets", cfg |-> cfg,
                  ret |-> find_arb_bets(<<EventOf(quotes)>>, cfg)]
    /\ UNCHANGED <<quotes, feed, prev>>

NextArb == ScanArb

SpecArb == InitArb /\ [][NextArb]_vars


---------------------------------------------------------------------------
(* Properties of the arbitrage detector                                    *)

ArbScanned == inv.fn = "find_arb_bets" /\ ~inv.ret.raised
ArbBets == inv.ret.value

\* the price a scan reads for a quote under its override map
Eff(q) == IF q.book \in DOMAIN inv.cfg.dfs_books THEN inv.cfg.dfs_books[q.book] ELSE q.price

ImpliedSum(pa, pb) == RAdd(american_to_implied_prob(pa), american_to_implied_prob(pb))

\* some Over and some Under quoted at the same total have implied probabilities
\* summing to less than 1
FavourableSameLine ==
    \E o, u \in quotes :
        /\ o.market = "totals" /\ u.market = "totals"
        /\ o.name = "Over" /\ u.name = "Under" /\ o.point = u.point
        /\ RLt(ImpliedSum(Eff(o), Eff(u)), RInt(1))

CrossLineQuotes(lo, hi) ==
    \E a, b \in quotes :
        /\ a.book # b.book
        /\ a.market = "totals" /\ a.name = "Over" /\ a.point = Some(hi) /\ a.price = 108
        /\ b.market = "totals" /\ b.name = "Under" /\ b.point = Some(lo) /\ b.price = 108

\* C5: every ArbBet on the totals market has point_a = point_b, and a snapshot in
\* which no Over and Under at the same total are favourable together yields no
\* ArbBet on totals, however favourable prices are across different totals.
C5_SameLineOnly ==
    ArbScanned =>
        /\ \A i \in 1..Len(ArbBets) :
              ArbBets[i].market = "totals" => ArbBets[i].point_a = ArbBets[i].point_b
        /\ ~FavourableSameLine =>
              \A i \in 1..Len(ArbBets) : ArbBets[i].market # "totals"

\* a scan of Over 235.5 at +108 at one book and Under 231.5 at +108 at another,
\* with no favourable same-line pair, that found no arbitrage on totals
C5_Witness ==
    /\ ArbScanned /\ inv.cfg = ArbArgs(Rat(1, 10), NoDfs)
    /\ CrossLineQuotes(463, 471)
    /\ ~FavourableSameLine
    /\ \A i \in 1..Len(ArbBets) : ArbBets[i].market # "totals"

\* the line of a quote: none for h2h, the absolute point otherwise
LineOf(q) == IF q.point = None THEN None ELSE Some(Abs(q.point[1]))

ArbGroup(q) == {g \in quotes : g.market = q.market /\ LineOf(g) = LineOf(q)}

HighestPrice(group, name) ==
    CHOOSE p \in {Eff(g) : g \in {x \in group : x.name = name}} :
        \A g \in group : g.name = name => Eff(g) <= p

ArbBetsOf(q) ==
    {i \in 1..Len(ArbBets) :
        /\ ArbBets[i].market = q.market
        /\ (IF ArbBets[i].point_a = None THEN None
            ELSE Some(Abs(ArbBets[i].point_a[1]))) = LineOf(q)}

ProfitOf(imp_sum) == RMul(RSub(RDiv(RInt(1), imp_sum), RInt(1)), RInt(100))

\* C7: for every two-sided same-line group, the scan emits exactly one ArbBet,
\* at the highest price of each side across the books, iff the implied
\* probabilities of the two highest prices sum to less than 1 and
\* (1/implied_sum - 1) x 100 >= min_profit_pct, and none otherwise; every
\* ArbBet has implied_sum < 1, profit_pct > 0 and profit_pct >= min_profit_pct.
C7_BestPricePerSide ==
    ArbScanned =>
        /\ \A i \in 1..Len(ArbBets) :
              /\ RLt(ArbBets[i].implied_sum, RInt(1))
              /\ RLt(RInt(0), ArbBets[i].profit_pct)
              /\ RLe(inv.cfg.min_profit_pct, ArbBets[i].profit_pct)
        /\ \A q \in quotes :
              LET group == ArbGroup(q)
                  names == {g.name : g \in group}
              IN  Cardinality(names) = 2 =>
                    LET na == q.name
                        nb == CHOOSE n \in names : n # q.name
                        pa == HighestPrice(group, na)
                        pb == HighestPrice(group, nb)
                        imp_sum == ImpliedSum(pa, pb)
                    IN  IF RLt(imp_sum, RInt(1))
                           /\ RLe(inv.cfg.min_profit_pct, ProfitOf(imp_sum))
                        THEN /\ Cardinality(ArbBetsOf(q)) = 1
                             /\ \A i \in ArbBetsOf(q) :
                                   /\ {<<ArbBets[i].outcome_a, ArbBets[i].odds_a>>,
                                       <<ArbBets[i].outcome_b, ArbBets[i].odds_b>>}
                                      = {<<na, pa>>, <<nb, pb>>}
                                   /\ ArbBets[i].implied_sum = imp_sum
                                   /\ ArbBets[i].profit_pct = ProfitOf(imp_sum)
                        ELSE ArbBetsOf(q) = {}

\* a scan of Over 220.5 +200 / Under 220.5 -300 at one book and the mirrored
\* prices at another that found exactly one ArbBet on that total
C7_Witness ==
    /\ ArbScanned /\ inv.cfg = ArbArgs(Rat(1, 10), NoDfs)
    /\ \E a, b \in {q.book : q \in quotes} :
          /\ a # b
          /\ Quote(a, Outcome("totals", "Over", Some(441), ""), 200) \in quotes
          /\ Quote(a, Outcome("totals", "Under", Some(441), ""), -300) \in quotes
          /\ Quote(b, Outcome("totals", "Over", Some(441), ""), -300) \in quotes
          /\ Quote(b, Outcome("totals", "Under", Some(441), ""), 200) \in quotes
    /\ Cardinality({i \in 1..Len(ArbBets) : ArbBets[i].market = "totals"}) = 1
    /\ \E i \in 1..Len(ArbBets) :
          /\ ArbBets[i].odds_a = 200 /\ ArbBets[i].odds_b = 200
          /\ ArbBets[i].point_a = Some(441) /\ ArbBets[i].point_b = Some(441)


---------------------------------------------------------------------------
(* Middles detector                                                        *)

\* _POINT_DENSITY and _DEFAULT_POINT_DENSITY
POINT_DENSITY ==
    [k \in {"basketball_nba", "basketball_ncaab", "americanfootball_nfl",
            "americanfootball_ncaaf", "baseball_mlb", "icehockey_nhl"} |->
        CASE k = "basketball_nba" -> Rat(35, 1000)
          [] k = "basketball_ncaab" -> Rat(4, 100)
          [] k = "americanfootball_nfl" -> Rat(45, 1000)
          [] k = "americanfootball_ncaaf" -> Rat(45, 1000)
          [] k = "baseball_mlb" -> Rat(8, 100)
          [] k = "icehockey_nhl" -> Rat(7, 100)]

DEFAULT_POINT_DENSITY == Rat(4, 100)

\* math.floor
Floor(x) == x[1] \div x[2]

RMin(x, y) == IF RLt(y, x) THEN y ELSE x

\* estimate_middle_hit_prob counting one landing spot whatever the window
estimate_middle_hit_prob_OneSpot(window_size, sport_key, market_key) ==
    RMin(IF sport_key \in DOMAIN POINT_DENSITY THEN POINT_DENSITY[sport_key]
         ELSE DEFAULT_POINT_DENSITY,
         Rat(30, 100))

\* def _estimate_middle_hit_prob(window_size, sport_key, market_key)
estimate_middle_hit_prob(window_size, sport_key, market_key) ==
    LET density == IF sport_key \in DOMAIN POINT_DENSITY THEN POINT_DENSITY[sport_key]
                   ELSE DEFAULT_POINT_DENSITY
        landing_spots == IF Floor(window_size) > 1 THEN Floor(window_size) ELSE 1
    IN  RMin(RMul(RInt(landing_spots), density), Rat(30, 100))

\* def _compute_middle_ev(odds_a, odds_b, hit_prob)
compute_middle_ev(odds_a, odds_b, hit_prob) ==
    LET dec_a == american_to_decimal(odds_a)
        dec_b == american_to_decimal(odds_b)
        profit_if_hit == RSub(RAdd(dec_a, dec_b), RInt(2))
        profit_if_miss == RDiv(RAdd(RSub(dec_a, RInt(2)), RSub(dec_b, RInt(2))), RInt(2))
        ev == RAdd(RMul(hit_prob, profit_if_hit),
                   RMul(RSub(RInt(1), hit_prob), profit_if_miss))
    IN  RMul(RDiv(ev, RInt(2)), RInt(100))

\* a point of the feed, kept in half-points, as a number of points
PointValue(pt) == Rat(pt, 2)

\* class MiddleBet; the lines and the ends of the window are in half-points
MiddleBet(event, market_key, a, b, low, high, window, cost, hp, ev_pct) ==
    [sport_key |-> event.sport_key, event_id |-> event.id,
     home_team |-> event.home_team, away_team |-> event.away_team,
     market |-> market_key,
     book_a |-> a.bm.key, book_a_title |-> a.bm.title, line_a |-> a.point,
     odds_a |-> a.price, outcome_a |-> a.name,
     book_b |-> b.bm.key, book_b_title |-> b.bm.title, line_b |-> b.point,
     odds_b |-> b.price, outcome_b |-> b.name,
     middle_low |-> low, middle_high |-> high, window_size |-> window,
     combined_cost |-> cost, hit_prob |-> hp, ev_percentage |-> ev_pct,
     player_name |-> None, is_prop |-> FALSE]

\* the (point, price, bm) tuples collected from a market, with the outcome name
MiddleLines(event, market_key, dfs_books) ==
    LET pointed == SelectSeq(MarketEntries(event, market_key),
                             LAMBDA e : e.outcome.point # None)
    IN  [i \in 1..Len(pointed) |->
            [name |-> pointed[i].outcome.name, point |-> pointed[i].outcome.point[1],
             price |-> effective_price(pointed[i].outcome, pointed[i].bm, dfs_books),
             bm |-> pointed[i].bm]]

\* MiddleOfLegs without the max_combined_cost filter
MiddleOfLegs_AnyCost(event, market_key, a, b, low, high, window, cfg) ==
    LET cost == RAdd(american_to_implied_prob(a.price), american_to_implied_prob(b.price))
        hp == estimate_middle_hit_prob(window, event.sport_key, market_key)
        ev_pct == compute_middle_ev(a.price, b.price, hp)
    IN  IF a.bm.key = b.bm.key THEN <<>>
        ELSE IF ~RLe(cfg.min_window, window) THEN <<>>
        ELSE <<MiddleBet(event, market_key, a, b, low, high, window, cost, hp, ev_pct)>>

\* the two filters and the construction shared by the inner loops
MiddleOfLegs(event, market_key, a, b, low, high, window, cfg) ==
    LET cost == RAdd(american_to_implied_prob(a.price), american_to_implied_prob(b.price))
        hp == estimate_middle_hit_prob(window, event.sport_key, market_key)
        ev_pct == compute_middle_ev(a.price, b.price, hp)
    IN  IF a.bm.key = b.bm.key THEN <<>>
        ELSE IF ~RLe(cfg.min_window, window) THEN <<>>
        ELSE IF ~RLe(cost, cfg.max_combined_cost) THEN <<>>
        ELSE IF Raised(american_to_decimal(a.price)) \/ Raised(american_to_decimal(b.price))
             THEN <<Exc>>
        ELSE <<MiddleBet(event, market_key, a, b, low, high, window, cost, hp, ev_pct)>>

\* window = pt_a + pt_b
spread_window(pt_a, pt_b) == RAdd(PointValue(pt_a), PointValue(pt_b))

\* def _find_spread_middles(event, market_key, middles, ...)
find_spread_middles(event, market_key, cfg) ==
    LET lines == MiddleLines(event, market_key, cfg.dfs_books)
        teams == Distinct([i \in 1..Len(lines) |-> lines[i].name])
        Of(t) == SelectSeq(lines, LAMBDA l : l.name = t)
    IN  Flatten([i \in 1..Len(teams) |->
            Flatten([j \in 1..Len(teams) |->
                IF j <= i THEN <<>>
                ELSE Flatten([x \in 1..Len(Of(teams[i])) |->
                        Flatten([y \in 1..Len(Of(teams[j])) |->
                            LET a == Of(teams[i])[x]
                                b == Of(teams[j])[y]
                                low == IF -a.point < b.point THEN -a.point ELSE b.point
                                high == IF -a.point > b.point THEN -a.point ELSE b.point
                            IN  MiddleOfLegs(event, market_key, a, b, low, high,
                                             spread_window(a.point, b.point), cfg)])])])])

\* total_window with the Over and the Under exchanged
total_window_Reversed(ov_pt, un_pt) == RSub(PointValue(ov_pt), PointValue(un_pt))

\* window = un_pt - ov_pt
total_window(ov_pt, un_pt) == RSub(PointValue(un_pt), PointValue(ov_pt))

\* def _find_total_middles(event, market_key, middles, ...)
find_total_middles(event, market_key, cfg) ==
    LET lines == MiddleLines(event, market_key, cfg.dfs_books)
        overs == SelectSeq(lines, LAMBDA l : l.name = "Over")
        unders == SelectSeq(lines, LAMBDA l : l.name = "Under")
    IN  Flatten([x \in 1..Len(overs) |->
            Flatten([y \in 1..Len(unders) |->
                MiddleOfLegs(event, market_key, overs[x], unders[y],
                             overs[x].point, unders[y].point,
                             total_window(overs[x].point, unders[y].point), cfg)])])

\* def _find_market_middles(event, market_key, middles, ...)
find_market_middles(event, market_key, cfg) ==
    IF market_key = "spreads" THEN find_spread_middles(event, market_key, cfg)
    ELSE IF market_key = "totals" THEN find_total_middles(event, market_key, cfg)
    ELSE <<>>

\* def find_middle_bets(events, min_window, max_combined_cost, dfs_books)
find_middle_bets(events, cfg) ==
    Returned(Flatten([i \in 1..Len(events) |->
                LET ks == SelectSeq(discover_market_keys(events[i]),
                                    LAMBDA k : k \in {"spreads", "totals"})
                IN  Flatten([m \in 1..Len(ks) |-> find_market_middles(events[i], ks[m], cfg)])]),
             "ev_percentage")

MiddleArgs(min_window, max_combined_cost, dfs_books) ==
    [min_window |-> min_window, max_combined_cost |-> max_combined_cost,
     dfs_books |-> dfs_books]

\* the defaults of find_middle_bets
MiddleDefaults == MiddleArgs(Rat(1, 2), Rat(108, 100), NoDfs)

One(market, name, point, price) ==
    {[o |-> Outcome(market, name, Some(point), ""), price |-> price]}

MiddleSheets ==
    { {},
      One("totals", "Over", 471, 108), One("totals", "Under", 463, 108),
      One("totals", "Over", 463, 108), One("totals", "Under", 471, 108),
      Pair("totals", 471, "", 108, -128),
      Pair("totals", 463, "", -128, 108),
      Pair("totals", 441, "", -100, -100),
      TwoWay("spreads", "Lakers", Some(-6), "Celtics", Some(6), -100, -100),
      TwoWay("spreads", "Lakers", Some(-9), "Celtics", Some(9), -128, 108) }

MiddleConfigs ==
    {MiddleDefaults,
     MiddleArgs(RInt(10), Rat(108, 100), NoDfs),
     MiddleArgs(Rat(1, 2), Rat(1, 2), NoDfs),
     MiddleArgs(Rat(1, 2), Rat(108, 100), [b \in {"book_a"} |-> 108])}

InitMiddle ==
    /\ quotes \in Snapshots(MiddleSheets)
    /\ feed = NoFeed
    /\ inv = Idle
    /\ prev = Idle

\* the app scans the snapshot for middles
ScanMiddle ==
    /\ inv = Idle
    /\ \E cfg \in MiddleConfigs :
          inv' = [fn |-> "find_middle_bets", cfg |-> cfg,
                  ret |-> find_middle_bets(<<EventOf(quotes)>>, cfg)]
    /\ UNCHANGED <<quotes, feed, prev>>

NextMiddle == ScanMiddle

SpecMiddle == InitMiddle /\ [][NextMiddle]_vars

---------------------------------------------------------------------------
(* Properties of the middles detector                                      *)

MiddleScanned == inv.fn = "find_middle_bets" /\ ~inv.ret.raised
MiddleBets == inv.ret.value

---------------------------------------------------------------------------
(* The conversion primitives called on their own                           *)

MaxOdds == 150

\* the outcome of a call: the value returned, or the exception raised
CallResult(v) ==
    IF Raised(v) THEN [raised |-> TRUE, value |-> <<>>] ELSE [raised |-> FALSE, value |-> v]

InitConv ==
    /\ quotes = {}
    /\ feed = NoFeed
    /\ inv = Idle
    /\ prev = Idle

CallAmericanToDecimal ==
    /\ inv = Idle
    /\ \E american \in -MaxOdds..MaxOdds :
          inv' = [fn |-> "american_to_decimal", american |-> american,
                  ret |-> CallResult(american_to_decimal(american))]
    /\ UNCHANGED <<quotes, feed, prev>>

CallAmericanToImpliedProb ==
    /\ inv = Idle
    /\ \E american \in -MaxOdds..MaxOdds :
          inv' = [fn |-> "american_to_implied_prob", american |-> american,
                  ret |-> CallResult(american_to_implied_prob(american))]
    /\ UNCHANGED <<quotes, feed, prev>>

NextConv == CallAmericanToDecimal \/ CallAmericanToImpliedProb

SpecConv == InitConv /\ [][NextConv]_vars

\* C9 (as stated): american_to_decimal returns without raising for every
\* American price: 1.0 for 0, a value for a price in (0,100), a/100 + 1 for
\* a >= 100 and 100/|a| + 1 for a < 0.
C9_DecimalIsTotal ==
    inv.fn = "american_to_decimal" =>
        /\ ~inv.ret.raised
        /\ inv.american = 0 => inv.ret.value = RInt(1)
        /\ inv.american >= 100 => inv.ret.value = Rat(inv.american + 100, 100)
        /\ inv.american < 0 => inv.ret.value = Rat(100 - inv.american, -inv.american)

\* C10 (as stated): american_to_implied_prob never raises and returns 0.0 for
\* the price 0, |a|/(|a|+100) for a < 0 and 100/(a+100) for a > 0.
C10_ImpliedProbOfZero ==
    inv.fn = "american_to_implied_prob" =>
        /\ ~inv.ret.raised
        /\ inv.american = 0 => inv.ret.value = RInt(0)
        /\ inv.american < 0 => inv.ret.value = Rat(-inv.american, 100 - inv.american)
        /\ inv.american > 0 => inv.ret.value = Rat(100, inv.american + 100)

---------------------------------------------------------------------------
(* A price moving between two +EV scans                                    *)

\* legal American prices of the moving quotes
MonoPrices == {-200, -100, 100, 200}

MonoSheets ==
    {Pair("totals", 441, "", -100, -100), Pair("totals", 441, "", -200, 100)}

\* the first bookmaker quotes any pair of prices, the others one of MonoSheets
MonoSnapshots ==
    {SnapshotOf(f) : f \in {g \in [Range(Books) ->
                                     MonoSheets \cup {Pair("totals", 441, "", o, u) :
                                                        o, u \in MonoPrices}] :
                              \A b \in Range(Books) : b # Books[1] => g[b] \in MonoSheets}}

\* a scan that emits a bet for every quote of a usable group
MonoConfigs == {EvArgs({}, RInt(-100), FALSE, NoDfs, None)}

InitMono ==
    /\ quotes \in MonoSnapshots
    /\ feed = NoFeed
    /\ inv = Idle
    /\ prev = Idle

ScanMono ==
    /\ inv = Idle
    /\ \E cfg \in MonoConfigs :
          inv' = [fn |-> "find_ev_bets", cfg |-> cfg,
                  ret |-> find_ev_bets(<<EventOf(quotes)>>, cfg)]
    /\ UNCHANGED <<quotes, feed, prev>>

\* the feed raises the price of one quote, once between two scans; the last
\* scan is kept for comparison
RaisePrice ==
    /\ inv.fn = "find_ev_bets"
    /\ feed = NoFeed
    /\ \E q \in quotes : \E new \in MonoPrices :
          /\ new > q.price
          /\ quotes' = (quotes \ {q}) \cup {[q EXCEPT !.price = new]}
          /\ feed' = [kind |-> "price", book |-> q.book, name |-> q.name,
                      old |-> q.price, new |-> new]
    /\ prev' = inv
    /\ inv' = Idle

NextMono == ScanMono \/ RaisePrice

SpecMono == InitMono /\ [][NextMono]_vars

\* two scans with one price raised in between
Rescanned ==
    /\ inv.fn = "find_ev_bets" /\ ~inv.ret.raised
    /\ feed # NoFeed
    /\ prev # Idle /\ ~prev.ret.raised

\* the bet a scan emitted for the moved quote
MovedBet(ret) ==
    LET hits == SelectSeq(ret.value,
                          LAMBDA b : b.book = feed.book /\ b.outcome_name = feed.name)
    IN  Head(hits)

\* C8 (as stated): raising one book's price for one side strictly increases
\* that side's no-vig probability and strictly increases that book's EV% on
\* that side.
C8_Monotone ==
    Rescanned =>
        /\ RLt(MovedBet(prev.ret).no_vig_prob, MovedBet(inv.ret).no_vig_prob)
        /\ RLt(MovedBet(prev.ret).ev_percentage, MovedBet(inv.ret).ev_percentage)

\* C8 (amended): in a two-sided group with at least 3 books per side, raising
\* one book's price for one side between legal prices, to a price of longer
\* odds, strictly decreases that side's no-vig probability, strictly increases
\* the other side's, and strictly increases that book's EV% on that side; a move
\* from -100 to +100, the same odds, changes neither.
C8_MonotoneInOdds ==
    Rescanned =>
        LET before == MovedBet(prev.ret)
            after == MovedBet(inv.ret)
        IN  IF feed.old = -100 /\ feed.new = 100
            THEN /\ after.no_vig_prob = before.no_vig_prob
                 /\ after.ev_percentage = before.ev_percentage
            ELSE /\ RLt(after.no_vig_prob, before.no_vig_prob)
                 /\ RLt(before.ev_percentage, after.ev_percentage)
                 /\ \A i \in 1..Len(inv.ret.value) : \A j \in 1..Len(prev.ret.value) :
                       (inv.ret.value[i].outcome_name # feed.name
                        /\ prev.ret.value[j].outcome_name # feed.name)
                       => RLt(prev.ret.value[j].no_vig_prob, inv.ret.value[i].no_vig_prob)

\* two scans around a raise of an Over from -200 to +200 in a group of 3 or
\* more books per side, the bet of the moved quote emitted by both
C8_Witness ==
    /\ Rescanned
    /\ feed.old = -200 /\ feed.new = 200 /\ feed.name = "Over"
    /\ BooksOn(quotes, "Over") >= 3 /\ BooksOn(quotes, "Under") >= 3
    /\ Len(prev.ret.value) = Cardinality(quotes)
    /\ Len(inv.ret.value) = Cardinality(quotes)
    /\ RLt(MovedBet(prev.ret).ev_percentage, MovedBet(inv.ret).ev_percentage)

---------------------------------------------------------------------------
(* Prop arbitrage and prop middles detectors                               *)

\* the (bm, outcome) pairs of a prop market that carry a player and a point:
\* "if not out.description or out.point is None: continue"
PropEntries(event, market_key) ==
    SelectSeq(MarketEntries(event, market_key),
              LAMBDA e : e.outcome.description # None /\ e.outcome.point # None)

\* the ArbBet or MiddleBet of a prop: player_name and is_prop filled in
AsProp(items, player) ==
    [i \in 1..Len(items) |->
        IF IsExc(items[i]) THEN items[i]
        ELSE [items[i] EXCEPT !.player_name = player, !.is_prop = TRUE]]

\* one (player, point) group of _find_prop_market_arbs
PropArbsOfGroup(event, market_key, entries, cfg) ==
    LET sides == DictOf(entries, [i \in 1..Len(entries) |-> entries[i].outcome.name])
        n == Len(sides.keys)
        best == [i \in 1..n |-> BestOfSide(sides.at[sides.keys[i]], cfg.dfs_books)]
    IN  IF n < 2 THEN <<>>
        ELSE Flatten([i \in 1..n |->
                Flatten([j \in 1..n |->
                    IF j > i
                    THEN AsProp(ArbOfPair(event, market_key, best[i], best[j],
                                          cfg.min_profit_pct),
                                best[i].outcome.description)
                    ELSE <<>>])])

\* def _find_prop_market_arbs(event, market_key, arbs, min_profit_pct, dfs_books)
find_prop_market_arbs(event, market_key, cfg) ==
    LET entries == PropEntries(event, market_key)
        groups == DictOf(entries, PairKeys(entries))
    IN  Flatten([g \in 1..Len(groups.keys) |->
            PropArbsOfGroup(event, market_key, groups.at[groups.keys[g]], cfg)])

\* def find_prop_arb_bets(events, min_profit_pct, dfs_books)
find_prop_arb_bets(events, cfg) ==
    Returned(Flatten([i \in 1..Len(events) |->
                LET ks == discover_market_keys(events[i])
                IN  Flatten([m \in 1..Len(ks) |->
                        find_prop_market_arbs(events[i], ks[m], cfg)])]),
             "profit_pct")

\* the (point, price, bm) tuples of player_overs and player_unders, with the
\* side and the player
PropMiddleLines(event, market_key, dfs_books) ==
    LET entries == PropEntries(event, market_key)
    IN  [i \in 1..Len(entries) |->
            [name |-> entries[i].outcome.name, point |-> entries[i].outcome.point[1],
             player |-> entries[i].outcome.description,
             price |-> effective_price(entries[i].outcome, entries[i].bm, dfs_books),
             bm |-> entries[i].bm]]

\* def _find_prop_market_middles(event, market_key, middles, ...)
find_prop_market_middles(event, market_key, cfg) ==
    LET lines == PropMiddleLines(event, market_key, cfg.dfs_books)
        overs == SelectSeq(lines, LAMBDA l : l.name = "Over")
        unders == SelectSeq(lines, LAMBDA l : l.name = "Under")
        players == Distinct([i \in 1..Len(overs) |-> overs[i].player])
    IN  Flatten([p \in 1..Len(players) |->
            LET mine == SelectSeq(overs, LAMBDA l : l.player = players[p])
                theirs == SelectSeq(unders, LAMBDA l : l.player = players[p])
            IN  Flatten([x \in 1..Len(mine) |->
                    Flatten([y \in 1..Len(theirs) |->
                        AsProp(MiddleOfLegs(event, market_key, mine[x], theirs[y],
                                            mine[x].point, theirs[y].point,
                                            total_window(mine[x].point, theirs[y].point),
                                            cfg),
                               players[p])])])])

\* def find_prop_middle_bets(events, min_window, max_combined_cost, dfs_books)
find_prop_middle_bets(events, cfg) ==
    Returned(Flatten([i \in 1..Len(events) |->
                LET ks == discover_market_keys(events[i])
                IN  Flatten([m \in 1..Len(ks) |->
                        find_prop_market_middles(events[i], ks[m], cfg)])]),
             "ev_percentage")

---------------------------------------------------------------------------
(* The detectors on quotes that cannot be evaluated                        *)

\* the record of a detector call: its name, its arguments and what it returned
Scan(fn, cfg, events) ==
    [fn |-> fn, cfg |-> cfg,
     ret |-> CASE fn = "find_ev_bets" -> find_ev_bets(events, cfg)
               [] fn = "find_arb_bets" -> find_arb_bets(events, cfg)
               [] fn = "find_prop_arb_bets" -> find_prop_arb_bets(events, cfg)
               [] fn = "find_middle_bets" -> find_middle_bets(events, cfg)
               [] fn = "find_prop_middle_bets" -> find_prop_middle_bets(events, cfg)]

\* the defaults of find_ev_bets and find_arb_bets
EvDefaults(is_props) == EvArgs({}, RInt(2), is_props, NoDfs, None)
ArbDefaults == ArbArgs(Rat(1, 10), NoDfs)

\* sheets with a price of 0, an outcome without a point, a prop without a
\* player, next to well-formed ones
RobustSheets ==
    { {},
      Pair("totals", 441, "", -100, -100),
      Pair("totals", 441, "", 0, -100),
      One("totals", "Over", 463, 0),
      One("totals", "Under", 471, 1900),
      {[o |-> Outcome("totals", "Over", None, ""), price |-> -100]}
          \cup TwoWay("h2h", "Lakers", None, "Celtics", None, 0, -100),
      Pair("player_points", 51, "LeBron James", 0, -100),
      Pair("player_points", 51, "LeBron James", -100, -100),
      {[o |-> Outcome("player_points", "Over", Some(51), ""), price |-> -100],
       [o |-> Outcome("player_points", "Under", Some(55), "LeBron James"), price |-> 1900]} }

InitRobust ==
    /\ quotes \in Snapshots(RobustSheets)
    /\ feed = NoFeed
    /\ inv = Idle
    /\ prev = Idle

RobustEv ==
    /\ inv = Idle
    /\ \E is_props \in BOOLEAN :
          inv' = Scan("find_ev_bets", EvDefaults(is_props), <<EventOf(quotes)>>)
    /\ UNCHANGED <<quotes, feed, prev>>

RobustArb ==
    /\ inv = Idle
    /\ inv' = Scan("find_arb_bets", ArbDefaults, <<EventOf(quotes)>>)
    /\ UNCHANGED <<quotes, feed, prev>>

RobustPropArb ==
    /\ inv = Idle
    /\ inv' = Scan("find_prop_arb_bets", ArbDefaults, <<EventOf(quotes)>>)
    /\ UNCHANGED <<quotes, feed, prev>>

RobustMiddle ==
    /\ inv = Idle
    /\ inv' = Scan("find_middle_bets", MiddleDefaults, <<EventOf(quotes)>>)
    /\ UNCHANGED <<quotes, feed, prev>>

RobustPropMiddle ==
    /\ inv = Idle
    /\ inv' = Scan("find_prop_middle_bets", MiddleDefaults, <<EventOf(quotes)>>)
    /\ UNCHANGED <<quotes, feed, prev>>

NextRobust == RobustEv \/ RobustArb \/ RobustPropArb \/ RobustMiddle \/ RobustPropMiddle

SpecRobust == InitRobust /\ [][NextRobust]_vars

\* C11 (as stated): every detector and prop variant returns a list and never
\* raises, whatever the quotes: a price of 0, a missing point or player, an
\* event without bookmakers; no item of the list is built on a price of 0.
C11_NeverRaises ==
    inv # Idle =>
        /\ ~inv.ret.raised
        /\ \A i \in 1..Len(inv.ret.value) :
              IF inv.fn = "find_ev_bets" THEN inv.ret.value[i].odds # 0
              ELSE inv.ret.value[i].odds_a # 0 /\ inv.ret.value[i].odds_b # 0

---------------------------------------------------------------------------
(* The detectors on a slate of two events                                  *)

\* a quote of a slate: a quote tagged with its event
Tagged(ev, qs) ==
    {[event |-> ev, book |-> q.book, market |-> q.market, name |-> q.name,
      point |-> q.point, description |-> q.description, price |-> q.price] : q \in qs}

Untagged(ev, qs) ==
    {Quote(q.book, Outcome(q.market, q.name, q.point, q.description), q.price) :
        q \in {x \in qs : x.event = ev}}

\* the events parsed from a slate
EventsOf(qs) ==
    << EventOf(Untagged("event1", qs)),
       [EventOf(Untagged("event2", qs)) EXCEPT
            !.id = "event2", !.home_team = "Bulls", !.away_team = "Pistons"] >>

\* sheets of the first event: totals and LeBron James props with an arbitrage
\* between sheets and an Under at a higher line for a middle
SlateSheets ==
    { Pair("totals", 441, "", -100, -100),
      Pair("totals", 441, "", 200, -300),
      Pair("totals", 441, "", -300, 200) \cup One("totals", "Under", 463, 100),
      Pair("player_points", 51, "LeBron James", 200, -300),
      Pair("player_points", 51, "LeBron James", -300, 200)
          \cup {[o |-> Outcome("player_points", "Under", Some(55), "LeBron James"),
                 price |-> 100]} }

\* the second event, quoted by three books around the prices hi and lo
SecondEvent(hi, lo) ==
    SnapshotOf([b \in {"book_a", "book_b", "book_c"} |->
        CASE b = "book_a" ->
                Pair("totals", 441, "", hi, lo)
                \cup TwoWay("spreads", "Lakers", Some(-6), "Celtics", Some(6), -100, -100)
                \cup Pair("player_points", 51, "LeBron James", hi, lo)
          [] b = "book_b" ->
                Pair("totals", 441, "", lo, hi)
                \cup TwoWay("spreads", "Lakers", Some(-9), "Celtics", Some(9), lo, hi)
                \cup Pair("player_points", 51, "LeBron James", lo, hi)
                \cup {[o |-> Outcome("player_points", "Under", Some(55), "LeBron James"),
                       price |-> hi]}
          [] b = "book_c" ->
                Pair("totals", 441, "", -100, -100)
                \cup Pair("player_points", 51, "LeBron James", -100, -100)])

SecondEvents == { {}, SecondEvent(108, -128), SecondEvent(300, -300) }

SlateEvConfigs ==
    {EvDefaults(p) : p \in BOOLEAN} \cup {EvArgs({}, RInt(-100), p, NoDfs, None) : p \in BOOLEAN}

InitSlate ==
    /\ quotes \in {Tagged("event1", q1) \cup Tagged("event2", q2) :
                      q1 \in Snapshots(SlateSheets), q2 \in SecondEvents}
    /\ feed = NoFeed
    /\ inv = Idle
    /\ prev = Idle

SlateEv ==
    /\ inv = Idle
    /\ \E cfg \in SlateEvConfigs : inv' = Scan("find_ev_bets", cfg, EventsOf(quotes))
    /\ UNCHANGED <<quotes, feed, prev>>

SlateArb ==
    /\ inv = Idle
    /\ inv' = Scan("find_arb_bets", ArbDefaults, EventsOf(quotes))
    /\ UNCHANGED <<quotes, feed, prev>>

SlatePropArb ==
    /\ inv = Idle
    /\ inv' = Scan("find_prop_arb_bets", ArbDefaults, EventsOf(quotes))
    /\ UNCHANGED <<quotes, feed, prev>>

SlateMiddle ==
    /\ inv = Idle
    /\ inv' = Scan("find_middle_bets", MiddleDefaults, EventsOf(quotes))
    /\ UNCHANGED <<quotes, feed, prev>>

SlatePropMiddle ==
    /\ inv = Idle
    /\ inv' = Scan("find_prop_middle_bets", MiddleDefaults, EventsOf(quotes))
    /\ UNCHANGED <<quotes, feed, prev>>

NextSlate == SlateEv \/ SlateArb \/ SlatePropArb \/ SlateMiddle \/ SlatePropMiddle

SpecSlate == InitSlate /\ [][NextSlate]_vars

\* the ranking statistic of an item of the returned list
Statistic(item) ==
    IF inv.fn \in {"find_arb_bets", "find_prop_arb_bets"} THEN item.profit_pct
    ELSE item.ev_percentage

\* C12: the list every detector returns is non-increasing in its ranking
\* statistic (ev_percentage for +EV bets and middles, profit_pct for
\* arbitrages) over its full length, across events and markets.
C12_Sorted ==
    (inv # Idle /\ ~inv.ret.raised) =>
        \A i, j \in 1..Len(inv.ret.value) :
            i < j => ~RLt(Statistic(inv.ret.value[i]), Statistic(inv.ret.value[j]))

\* a returned list whose first item comes from the second event and ranks
\* strictly above an item of the first event, and which mixes two markets
C12_Witness ==
    /\ inv # Idle /\ ~inv.ret.raised
    /\ Len(inv.ret.value) >= 3
    /\ inv.ret.value[1].event_id = "event2"
    /\ \E j \in 2..Len(inv.ret.value) :
          /\ inv.ret.value[j].event_id = "event1"
          /\ RLt(Statistic(inv.ret.value[j]), Statistic(inv.ret.value[1]))
    /\ \E i, j \in 1..Len(inv.ret.value) : inv.ret.value[i].market # inv.ret.value[j].market

---------------------------------------------------------------------------
(* The hit-probability estimate called on its own                          *)

\* the widest window, in quarter points
MaxWindow == 48

\* the sports of the density table and one outside it
SportKeys == DOMAIN POINT_DENSITY \cup {"soccer_epl"}

InitHit ==
    /\ quotes = {}
    /\ feed = NoFeed
    /\ inv = Idle
    /\ prev = Idle

\* the estimate is computed for a window, and once more for another window of
\* the same sport and market; the first result is kept for comparison
EstimateHitProb ==
    /\ prev = Idle
    /\ \E w \in 0..MaxWindow, sport_key \in SportKeys, market_key \in {"spreads", "totals"} :
          /\ inv # Idle => sport_key = inv.sport_key /\ market_key = inv.market_key
          /\ inv' = [fn |-> "_estimate_middle_hit_prob", window_size |-> Rat(w, 4),
                     sport_key |-> sport_key, market_key |-> market_key,
                     ret |-> estimate_middle_hit_prob(Rat(w, 4), sport_key, market_key)]
    /\ prev' = inv
    /\ UNCHANGED <<quotes, feed>>

NextHit == EstimateHitProb

SpecHit == InitHit /\ [][NextHit]_vars

\* the per-point density the estimate is claimed to use
ClaimedDensity(sport_key) ==
    CASE sport_key = "basketball_nba" -> Rat(35, 1000)
      [] sport_key = "basketball_ncaab" -> Rat(40, 1000)
      [] sport_key \in {"americanfootball_nfl", "americanfootball_ncaaf"} -> Rat(45, 1000)
      [] sport_key = "baseball_mlb" -> Rat(80, 1000)
      [] sport_key = "icehockey_nhl" -> Rat(70, 1000)
      [] OTHER -> Rat(40, 1000)

\* the largest integer not above the rational x >= 0
Whole(x) == CHOOSE n \in 0..MaxWindow : RLe(RInt(n), x) /\ RLt(x, RInt(n + 1))

\* C13 (as stated): for every window w >= 0 and every sport the estimate is
\* min(floor(w) x density(sport), 0.30), also for w < 1.
C13_FloorTimesDensity ==
    inv.fn = "_estimate_middle_hit_prob" =>
        LET claimed == RMul(RInt(Whole(inv.window_size)), ClaimedDensity(inv.sport_key))
        IN  inv.ret = IF RLt(Rat(3, 10), claimed) THEN Rat(3, 10) ELSE claimed

\* C14: on the same sport and market the estimate for a 3-point window is
\* strictly greater than for a 1-point window; the estimate is non-decreasing
\* in the window size and never exceeds 0.30.
C14_WindowScaling ==
    inv.fn = "_estimate_middle_hit_prob" =>
        /\ RLe(inv.ret, Rat(3, 10))
        /\ prev # Idle =>
              /\ RLe(prev.window_size, inv.window_size) => RLe(prev.ret, inv.ret)
              /\ (prev.window_size = RInt(1) /\ inv.window_size = RInt(3))
                    => RLt(prev.ret, inv.ret)

\* the estimate taken for a 1-point and then a 3-point window on baseball
\* totals, the sport of the highest density
C14_Witness ==
    /\ inv.fn = "_estimate_middle_hit_prob" /\ prev # Idle
    /\ prev.window_size = RInt(1) /\ inv.window_size = RInt(3)
    /\ inv.sport_key = "baseball_mlb" /\ inv.market_key = "totals"
    /\ RLt(prev.ret, inv.ret)

---------------------------------------------------------------------------
(* Two players on one prop market, a quote of the second one changing      *)

PlayerA == "LeBron James"
PlayerB == "Jayson Tatum"

PropOne(name, point, player, price) ==
    {[o |-> Outcome("player_points", name, Some(point), player), price |-> price]}

\* every book quotes the first player, and the second player or not
PropSheets ==
    {a \cup b :
        a \in {Pair("player_points", 51, PlayerA, 200, -300),
               Pair("player_points", 51, PlayerA, -300, 200)
                   \cup PropOne("Under", 55, PlayerA, 100)},
        b \in {{},
               Pair("player_points", 51, PlayerB, 300, -300)
                   \cup PropOne("Under", 55, PlayerB, 300)}}

PropPrices == {-100, 300}

PropCalls ==
    {<<"find_ev_bets", EvDefaults(TRUE)>>,
     <<"find_ev_bets", EvArgs({}, RInt(-100), TRUE, NoDfs, None)>>,
     <<"find_prop_arb_bets", ArbDefaults>>,
     <<"find_prop_middle_bets", MiddleDefaults>>}

InitProps ==
    /\ quotes \in Snapshots(PropSheets)
    /\ feed = NoFeed
    /\ inv = Idle
    /\ prev = Idle

\* a prop detector scans the snapshot; after a feed update the same detector
\* scans again with the same arguments
ScanProps ==
    /\ inv = Idle
    /\ \E call \in PropCalls :
          /\ prev # Idle => (call[1] = prev.fn /\ call[2] = prev.cfg)
          /\ inv' = Scan(call[1], call[2], <<EventOf(quotes)>>)
    /\ UNCHANGED <<quotes, feed, prev>>

\* the feed moves the price of one quote of the second player, once
MovePlayerB ==
    /\ inv # Idle
    /\ feed = NoFeed
    /\ \E q \in quotes : \E new \in PropPrices :
          /\ q.description = PlayerB
          /\ new # q.price
          /\ quotes' = (quotes \ {q}) \cup {[q EXCEPT !.price = new]}
          /\ feed' = [kind |-> "price", book |-> q.book, name |-> q.name,
                      old |-> q.price, new |-> new]
    /\ prev' = inv
    /\ inv' = Idle

\* the feed drops one quote of the second player, once
DropPlayerB ==
    /\ inv # Idle
    /\ feed = NoFeed
    /\ \E q \in quotes :
          /\ q.description = PlayerB
          /\ quotes' = quotes \ {q}
          /\ feed' = [kind |-> "drop", book |-> q.book, name |-> q.name,
                      old |-> q.price, new |-> 0]
    /\ prev' = inv
    /\ inv' = Idle

NextProps == ScanProps \/ MovePlayerB \/ DropPlayerB

SpecProps == InitProps /\ [][NextProps]_vars

\* the items of a returned list that belong to a player
ItemsOf(ret, player) == SelectSeq(ret.value, LAMBDA b : b.player_name = Some(player))

\* a quote of the snapshot is the leg (book, side, point, price) of a player
IsLeg(player, book, name, point, price) ==
    \E q \in quotes :
        /\ q.description = player /\ q.book = book /\ q.name = name
        /\ q.point = point /\ q.price = price

\* the sum of the implied probabilities of a set of quotes
RECURSIVE ImpliedTotal(_)
ImpliedTotal(qs) ==
    IF qs = {} THEN RInt(0)
    ELSE LET q == CHOOSE x \in qs : TRUE
         IN  RAdd(american_to_implied_prob(q.price), ImpliedTotal(qs \ {q}))

\* the mean implied probability of one side among the quotes of a player at a
\* line, and the share of the side of quote q in the two sides of its own pair
SideMean(q, name) ==
    LET side == {x \in quotes : /\ x.description = q.description /\ x.market = q.market
                                /\ x.point = q.point /\ x.name = name}
    IN  RDiv(ImpliedTotal(side), RInt(Cardinality(side)))

OwnPairShare(q) ==
    RDiv(SideMean(q, q.name), RAdd(SideMean(q, "Over"), SideMean(q, "Under")))

\* C15: no prop result mixes players.  The no-vig probability of a prop bet is
\* the consensus of the quotes of its own player at its own line; both legs of
\* a prop ArbBet are quotes of one player at one point; the legs of a prop
\* MiddleBet are an Over and an Under of one player; and a change of a quote of
\* the second player leaves every result of the first player as it was.
C15_PlayersIsolated ==
    (inv # Idle /\ ~inv.ret.raised) =>
        /\ \A i \in 1..Len(inv.ret.value) :
              LET b == inv.ret.value[i]
              IN  CASE inv.fn = "find_ev_bets" ->
                         \A q \in BetQuotes(quotes, b) :
                             b.no_vig_prob = OwnPairShare(q)
                    [] inv.fn = "find_prop_arb_bets" ->
                         /\ b.point_a = b.point_b
                         /\ \E player \in {PlayerA, PlayerB} :
                               /\ b.player_name = Some(player)
                               /\ IsLeg(player, b.book_a, b.outcome_a, b.point_a, b.odds_a)
                               /\ IsLeg(player, b.book_b, b.outcome_b, b.point_b, b.odds_b)
                    [] inv.fn = "find_prop_middle_bets" ->
                         \E player \in {PlayerA, PlayerB} :
                               /\ b.player_name = Some(player)
                               /\ b.outcome_a = "Over" /\ b.outcome_b = "Under"
                               /\ IsLeg(player, b.book_a, "Over", Some(b.line_a), b.odds_a)
                               /\ IsLeg(player, b.book_b, "Under", Some(b.line_b), b.odds_b)
        /\ (prev # Idle /\ ~prev.ret.raised) =>
              ItemsOf(inv.ret, PlayerA) = ItemsOf(prev.ret, PlayerA)

\* two scans around a change of a quote of the second player, with results for
\* both players in the first scan and a different list in the second
C15_Witness ==
    /\ inv # Idle /\ prev # Idle /\ ~inv.ret.raised /\ ~prev.ret.raised
    /\ ItemsOf(prev.ret, PlayerA) # <<>>
    /\ ItemsOf(prev.ret, PlayerB) # <<>>
    /\ inv.ret.value # prev.ret.value
    /\ ItemsOf(inv.ret, PlayerA) = ItemsOf(prev.ret, PlayerA)


---------------------------------------------------------------------------
(* The filters of the middles detector                                     *)

\* two quotes of one market that the detector pairs: an Over with an Under on
\* totals, two different teams on spreads, both with a line
Pairable(qa, qb) ==
    /\ qa.market = qb.market
    /\ qa.point # None /\ qb.point # None
    /\ \/ qa.market = "totals" /\ qa.name = "Over" /\ qb.name = "Under"
       \/ qa.market = "spreads" /\ qa.name # qb.name

\* the window of a pair: Under line minus Over line, or the sum of the spreads
ClaimedWindow(market, pt_a, pt_b) ==
    IF market = "totals" THEN Rat(pt_b - pt_a, 2) ELSE Rat(pt_a + pt_b, 2)

Qualifies(qa, qb) ==
    /\ Pairable(qa, qb)
    /\ qa.book # qb.book
    /\ RLe(inv.cfg.min_window, ClaimedWindow(qa.market, qa.point[1], qb.point[1]))
    /\ RLe(ImpliedSum(Eff(qa), Eff(qb)), inv.cfg.max_combined_cost)

IsMiddleOf(m, qa, qb) ==
    /\ m.market = qa.market
    /\ m.book_a = qa.book /\ m.outcome_a = qa.name
    /\ m.line_a = qa.point[1] /\ m.odds_a = Eff(qa)
    /\ m.book_b = qb.book /\ m.outcome_b = qb.name
    /\ m.line_b = qb.point[1] /\ m.odds_b = Eff(qb)

\* the pair is in the returned list; a spread pair is emitted in the order in
\* which the two teams were first met
Emitted(qa, qb) ==
    \E i \in 1..Len(MiddleBets) :
        \/ IsMiddleOf(MiddleBets[i], qa, qb)
        \/ qa.market = "spreads" /\ IsMiddleOf(MiddleBets[i], qb, qa)

\* C16: find_middle_bets returns a MiddleBet for a pair of quotes (an Over and an
\* Under on totals, two different teams on spreads) if and only if the quotes
\* are at different bookmakers, the window (Under minus Over, or the sum of the
\* two spreads) is at least min_window and the implied probabilities sum to at
\* most max_combined_cost. Every MiddleBet has book_a # book_b, window_size >=
\* min_window and combined_cost <= max_combined_cost, and with the default
\* min_window no MiddleBet has both legs at the same line.
C16_MiddleFilters ==
    MiddleScanned =>
        /\ \A qa, qb \in quotes :
              Pairable(qa, qb) => (Qualifies(qa, qb) <=> Emitted(qa, qb))
        /\ \A i \in 1..Len(MiddleBets) :
              LET m == MiddleBets[i]
              IN  /\ m.book_a # m.book_b
                  /\ m.window_size = ClaimedWindow(m.market, m.line_a, m.line_b)
                  /\ m.combined_cost = ImpliedSum(m.odds_a, m.odds_b)
                  /\ RLe(inv.cfg.min_window, m.window_size)
                  /\ RLe(m.combined_cost, inv.cfg.max_combined_cost)
                  /\ \E qa, qb \in quotes : Pairable(qa, qb) /\ IsMiddleOf(m, qa, qb)
                  /\ inv.cfg.min_window = MiddleDefaults.min_window =>
                        IF m.market = "totals" THEN m.line_a # m.line_b
                        ELSE m.line_a # -m.line_b

\* a scan that returned a middle while it left out a
\* pair at one book, a pair at the same line and a pair costing too much
C16_Witness ==
    /\ MiddleScanned
    /\ Len(MiddleBets) >= 1
    /\ \E qa, qb \in quotes :
          Pairable(qa, qb) /\ qa.book = qb.book /\ ~Emitted(qa, qb)
    /\ \E qa, qb \in quotes :
          /\ Pairable(qa, qb) /\ qa.book # qb.book /\ ~Emitted(qa, qb)
          /\ ClaimedWindow(qa.market, qa.point[1], qb.point[1]) = RInt(0)
    /\ \E qa, qb \in quotes :
          /\ Pairable(qa, qb) /\ qa.book # qb.book /\ ~Emitted(qa, qb)
          /\ RLe(inv.cfg.min_window, ClaimedWindow(qa.market, qa.point[1], qb.point[1]))
          /\ ~RLe(ImpliedSum(Eff(qa), Eff(qb)), inv.cfg.max_combined_cost)


---------------------------------------------------------------------------
(* A probability converted to American odds and back                       *)

\* probabilities are the fractions n/d with d up to MaxDenominator, from -1/d
\* to (d+1)/d
MaxDenominator == 16

Probabilities == {Rat(n, d) : n \in -1..(MaxDenominator + 1), d \in 1..MaxDenominator}

InitRound ==
    /\ quotes = {}
    /\ feed = NoFeed
    /\ inv = Idle
    /\ prev = Idle

CallProbToAmerican ==
    /\ inv = Idle
    /\ \E prob \in Probabilities :
          inv' = [fn |-> "prob_to_american", prob |-> prob,
                  ret |-> CallResult(prob_to_american(prob))]
    /\ UNCHANGED <<quotes, feed, prev>>

\* the odds returned are converted back
CallImpliedProbOfResult ==
    /\ inv # Idle /\ inv.fn = "prob_to_american" /\ ~inv.ret.raised
    /\ prev' = inv
    /\ inv' = [fn |-> "american_to_implied_prob", american |-> inv.ret.value,
               ret |-> CallResult(american_to_implied_prob_rational(inv.ret.value))]
    /\ UNCHANGED <<quotes, feed>>

NextRound == CallProbToAmerican \/ CallImpliedProbOfResult

SpecRound == InitRound /\ [][NextRound]_vars

StrictlyInside(p) == RLt(RInt(0), p) /\ RLt(p, RInt(1))

\* C17: for every probability p strictly between 0 and 1,
\* american_to_implied_prob(prob_to_american(p)) = p, and prob_to_american
\* returns 0.0 for p <= 0 and for p >= 1.
C17_RoundTrip ==
    /\ (inv # Idle /\ inv.fn = "prob_to_american") =>
          /\ ~inv.ret.raised
          /\ ~StrictlyInside(inv.prob) => inv.ret.value = RInt(0)
    /\ (inv # Idle /\ inv.fn = "american_to_implied_prob") =>
          /\ ~inv.ret.raised
          /\ StrictlyInside(prev.prob) => inv.ret.value = prev.prob

\* a favourite (p = 2/3, odds -200) converted back to 2/3
C17_Witness ==
    /\ inv # Idle /\ inv.fn = "american_to_implied_prob"
    /\ prev.prob = Rat(2, 3) /\ inv.american = RInt(-200)
    /\ inv.ret.value = Rat(2, 3)


---------------------------------------------------------------------------
(* The credit budget tracker (app/services/budget.py)                      *)
(*                                                                         *)
(* In the specification of the tracker, inv is the BudgetTracker object,   *)
(* feed is the list of (remaining, used) header pairs it has been handed,  *)
(* oldest first, and prev is the tracker as it was before the last update. *)

\* def __init__(self, low_warning=50, critical_stop=10)
BudgetTracker(low_warning, critical_stop) ==
    [remaining |-> None, used |-> None,
     low_warning |-> low_warning, critical_stop |-> critical_stop]

\* update that keeps the last value handed to it
update_LastWins(bt, remaining, used) ==
    [bt EXCEPT !.remaining = IF remaining # None THEN remaining ELSE @,
               !.used = IF used # None THEN used ELSE @]

\* update that keeps the highest remaining value handed to it
update_KeepsHighest(bt, remaining, used) ==
    [bt EXCEPT
        !.remaining = IF remaining # None /\ (@ = None \/ remaining[1] >= @[1])
                      THEN remaining ELSE @,
        !.used = IF used # None /\ (@ = None \/ used[1] >= @[1])
                 THEN used ELSE @]

\* def update(self, remaining, used)
update(bt, remaining, used) ==
    [bt EXCEPT
        !.remaining = IF remaining # None /\ (@ = None \/ remaining[1] <= @[1])
                      THEN remaining ELSE @,
        !.used = IF used # None /\ (@ = None \/ used[1] >= @[1])
                 THEN used ELSE @]

\* @property is_low
is_low(bt) == IF bt.remaining = None THEN FALSE ELSE bt.remaining[1] <= bt.low_warning

\* @property is_critical
is_critical(bt) == IF bt.remaining = None THEN FALSE ELSE bt.remaining[1] <= bt.critical_stop

\* @property can_fetch_odds
can_fetch_odds(bt) == IF bt.remaining = None THEN TRUE ELSE ~is_low(bt)

\* @property can_fetch_scores
can_fetch_scores(bt) == IF bt.remaining = None THEN TRUE ELSE ~is_critical(bt)

\* can_fetch_props with the threshold of can_fetch_scores
can_fetch_props_AtCritical(bt) ==
    IF bt.remaining = None THEN TRUE ELSE bt.remaining[1] > bt.critical_stop

\* @property can_fetch_props
can_fetch_props(bt) ==
    IF bt.remaining = None THEN TRUE ELSE bt.remaining[1] > bt.critical_stop * 3

\* @property warning_text
warning_text(bt) ==
    IF is_critical(bt) THEN "CREDITS CRITICAL - Pausing all API calls"
    ELSE IF is_low(bt) THEN "Credits low - Scores only mode"
    ELSE ""

\* the thresholds of the settings, and a pair with the critical stop above the
\* low warning
BudgetSettings == {<<50, 10>>, <<10, 50>>}

\* the x-requests-remaining and x-requests-used values of a response
RemainingValues == {None, Some(10), Some(30), Some(31), Some(50), Some(51)}
UsedValues == {None, Some(350), Some(400)}

\* the number of responses received
MaxUpdates == 3

InitBudget ==
    /\ quotes = {}
    /\ feed = <<>>
    /\ \E s \in BudgetSettings : inv = BudgetTracker(s[1], s[2])
    /\ prev = Idle

\* a response arrives, in any order, and its headers are handed to the tracker
Update ==
    /\ Len(feed) < MaxUpdates
    /\ \E remaining \in RemainingValues : \E used \in UsedValues :
          /\ inv' = update(inv, remaining, used)
          /\ feed' = Append(feed, [remaining |-> remaining, used |-> used])
    /\ prev' = inv
    /\ UNCHANGED quotes

NextBudget == Update

SpecBudget == InitBudget /\ [][NextBudget]_vars

\* the values of a header field received so far
Received(field) == {feed[i][field][1] : i \in {j \in 1..Len(feed) : feed[j][field] # None}}

Least(S) == CHOOSE x \in S : \A y \in S : x <= y
Greatest(S) == CHOOSE x \in S : \A y \in S : x >= y

\* C18: after any sequence of update calls, remaining is the least remaining
\* value received and used the greatest used value received (None while none
\* was received), and a None argument leaves its field as it was.
C18_MinRemainingMaxUsed ==
    /\ inv.remaining = IF Received("remaining") = {} THEN None
                       ELSE Some(Least(Received("remaining")))
    /\ inv.used = IF Received("used") = {} THEN None
                  ELSE Some(Greatest(Received("used")))
    /\ feed # <<>> =>
          /\ feed[Len(feed)].remaining = None => inv.remaining = prev.remaining
          /\ feed[Len(feed)].used = None => inv.used = prev.used
          /\ (prev.remaining # None /\ inv.remaining # None) =>
                inv.remaining[1] <= prev.remaining[1]
          /\ (prev.used # None /\ inv.used # None) => inv.used[1] >= prev.used[1]

\* a stale response (remaining 51 after 50, used 350 after 400) was ignored
C18_Witness ==
    /\ Len(feed) >= 2
    /\ feed[Len(feed)].remaining = Some(51) /\ feed[Len(feed)].used = Some(350)
    /\ prev.remaining = Some(50) /\ prev.used = Some(400)
    /\ inv.remaining = Some(50) /\ inv.used = Some(400)

\* C19: while remaining is None the three fetches are allowed and the tracker
\* is neither low nor critical; otherwise can_fetch_odds iff remaining >
\* low_warning, can_fetch_scores iff remaining > critical_stop, can_fetch_props
\* iff remaining > 3 x critical_stop; warning_text is the critical text whenever
\* the tracker is critical, the low text when it is low and not critical, and
\* empty otherwise.
C19_Gates ==
    /\ inv.remaining = None =>
          /\ can_fetch_odds(inv) /\ can_fetch_scores(inv) /\ can_fetch_props(inv)
          /\ ~is_low(inv) /\ ~is_critical(inv)
          /\ warning_text(inv) = ""
    /\ inv.remaining # None =>
          /\ can_fetch_odds(inv) <=> inv.remaining[1] > inv.low_warning
          /\ can_fetch_scores(inv) <=> inv.remaining[1] > inv.critical_stop
          /\ can_fetch_props(inv) <=> inv.remaining[1] > 3 * inv.critical_stop
          /\ is_low(inv) <=> inv.remaining[1] <= inv.low_warning
          /\ is_critical(inv) <=> inv.remaining[1] <= inv.critical_stop
          /\ warning_text(inv) =
                IF inv.remaining[1] <= inv.critical_stop
                THEN "CREDITS CRITICAL - Pausing all API calls"
                ELSE IF inv.remaining[1] <= inv.low_warning
                     THEN "Credits low - Scores only mode"
                     ELSE ""

\* with the default thresholds and 30 credits left: low and not critical, scores
\* allowed, odds and props blocked
C19_Witness ==
    /\ inv.low_warning = 50 /\ inv.critical_stop = 10
    /\ inv.remaining = Some(30)
    /\ is_low(inv) /\ ~is_critical(inv)
    /\ can_fetch_scores(inv) /\ ~can_fetch_odds(inv) /\ ~can_fetch_props(inv)
    /\ warning_text(inv) = "Credits low - Scores only mode"


---------------------------------------------------------------------------
(* The in-memory TTL cache (app/services/cache.py)                         *)
(*                                                                         *)
(* In the specification of the cache, inv is the TTLCache object, feed is  *)
(* the reading of time.monotonic(), and prev is the list of the calls made *)
(* on the cache, oldest first, each with its time and its return value.    *)

CacheKeys == {"basketball_nba:odds", "basketball_nba:scores"}

\* def __init__(self): an absent key of _store is None
TTLCache == [store |-> [k \in CacheKeys |-> None]]

\* get that never looks at the clock
get_NoExpiry(cache, key, now) ==
    LET entry == cache.store[key]
    IN  IF entry = None THEN [cache |-> cache, ret |-> None]
        ELSE [cache |-> cache, ret |-> Some(entry[1].value)]

\* def get(self, key): the cache after the call and the value returned
get(cache, key, now) ==
    LET entry == cache.store[key]
    IN  IF entry = None THEN [cache |-> cache, ret |-> None]
        ELSE IF now > entry[1].expires_at
             THEN [cache |-> [cache EXCEPT !.store[key] = None], ret |-> None]
             ELSE [cache |-> cache, ret |-> Some(entry[1].value)]

\* def set(self, key, value, ttl)
set(cache, key, value, ttl, now) ==
    [cache EXCEPT !.store[key] = Some([value |-> value, expires_at |-> now + ttl])]

\* def invalidate(self, key)
invalidate(cache, key) == [cache EXCEPT !.store[key] = None]

\* def clear(self)
clear(cache) == [cache EXCEPT !.store = [k \in CacheKeys |-> None]]

\* the calls made on one cache, the readings of the clock, the lifetimes
MaxCalls == 3
MaxTime == 3
Lifetimes == {1, 2}

Call(fn, key, value, ttl, ret) ==
    [fn |-> fn, key |-> key, value |-> value, ttl |-> ttl, at |-> feed, ret |-> ret]

InitCache ==
    /\ quotes = {}
    /\ feed = 0
    /\ inv = TTLCache
    /\ prev = <<>>

\* the monotonic clock advances
Tick ==
    /\ feed < MaxTime
    /\ feed' = feed + 1
    /\ UNCHANGED <<quotes, inv, prev>>

\* every value stored is a new one: the number of the call that stores it
CacheSet ==
    /\ Len(prev) < MaxCalls
    /\ \E key \in CacheKeys : \E ttl \in Lifetimes :
          /\ inv' = set(inv, key, Len(prev) + 1, ttl, feed)
          /\ prev' = Append(prev, Call("set", key, Len(prev) + 1, ttl, None))
    /\ UNCHANGED <<quotes, feed>>

CacheGet ==
    /\ Len(prev) < MaxCalls
    /\ \E key \in CacheKeys :
          /\ inv' = get(inv, key, feed).cache
          /\ prev' = Append(prev, Call("get", key, 0, 0, get(inv, key, feed).ret))
    /\ UNCHANGED <<quotes, feed>>

CacheInvalidate ==
    /\ Len(prev) < MaxCalls
    /\ \E key \in CacheKeys :
          /\ inv' = invalidate(inv, key)
          /\ prev' = Append(prev, Call("invalidate", key, 0, 0, None))
    /\ UNCHANGED <<quotes, feed>>

CacheClear ==
    /\ Len(prev) < MaxCalls
    /\ inv' = clear(inv)
    /\ prev' = Append(prev, Call("clear", "", 0, 0, None))
    /\ UNCHANGED <<quotes, feed>>

NextCache == Tick \/ CacheSet \/ CacheGet \/ CacheInvalidate \/ CacheClear

SpecCache == InitCache /\ [][NextCache]_vars

\* the calls before call n that set the key of call n, and the last of them
SetsBefore(n) == {i \in 1..(n - 1) : prev[i].fn = "set" /\ prev[i].key = prev[n].key}
LastSet(n) == CHOOSE i \in SetsBefore(n) : \A j \in SetsBefore(n) : j <= i

\* an invalidate of the key of call n, or a clear, between its last set and n
Dropped(n) ==
    \E j \in (LastSet(n) + 1)..(n - 1) :
        \/ prev[j].fn = "invalidate" /\ prev[j].key = prev[n].key
        \/ prev[j].fn = "clear"

Expected(n) ==
    IF SetsBefore(n) = {} THEN None
    ELSE IF Dropped(n) THEN None
    ELSE IF prev[n].at <= prev[LastSet(n)].at + prev[LastSet(n)].ttl
         THEN Some(prev[LastSet(n)].value)
         ELSE None

Gets == {n \in 1..Len(prev) : prev[n].fn = "get"}

\* C20: a get(k) returns the value of the most recent set(k, v, ttl) if and only
\* if no invalidate(k) and no clear followed that set and the time of the get is
\* at most the time of the set plus ttl, and None otherwise; a get that finds
\* its entry expired leaves the key absent, and no later get returns the value
\* of that set.
C20_GetReturnsLiveValue ==
    /\ \A n \in Gets : prev[n].ret = Expected(n)
    /\ \A n \in Gets :
          (n = Len(prev) /\ prev[n].ret = None) => inv.store[prev[n].key] = None
    /\ \A m, n \in Gets :
          (/\ m < n /\ prev[m].key = prev[n].key
           /\ SetsBefore(m) # {} /\ LastSet(m) = LastSet(n)
           /\ prev[m].ret = None) => prev[n].ret = None

\* a value set with ttl 1 was returned by a get one tick later and not by a get
\* two ticks later
C20_Witness ==
    /\ Len(prev) = 3
    /\ prev[1].fn = "set" /\ prev[1].ttl = 1 /\ prev[1].at = 0
    /\ prev[2].fn = "get" /\ prev[2].key = prev[1].key /\ prev[2].at = 1
    /\ prev[2].ret = Some(prev[1].value)
    /\ prev[3].fn = "get" /\ prev[3].key = prev[1].key /\ prev[3].at = 2
    /\ prev[3].ret = None
    /\ inv.store[prev[1].key] = None


---------------------------------------------------------------------------
(* The arbitrage detector on spreads whose books disagree on the favourite *)

\* a book lists the Lakers at -3 and the Celtics at +3, or the Lakers at +3 and
\* the Celtics at -3, or the two teams at -4.5 and +4.5
SpreadSheets ==
    { {},
      TwoWay("spreads", "Lakers", Some(-6), "Celtics", Some(6), 108, -128),
      TwoWay("spreads", "Lakers", Some(-6), "Celtics", Some(6), -128, 108),
      TwoWay("spreads", "Lakers", Some(6), "Celtics", Some(-6), 108, -128),
      TwoWay("spreads", "Lakers", Some(6), "Celtics", Some(-6), -128, 108),
      TwoWay("spreads", "Lakers", Some(-9), "Celtics", Some(9), 108, -128),
      TwoWay("spreads", "Lakers", Some(-9), "Celtics", Some(9), -128, 108) }

InitSpread ==
    /\ quotes \in Snapshots(SpreadSheets)
    /\ feed = NoFeed
    /\ inv = Idle
    /\ prev = Idle

ScanSpread ==
    /\ inv = Idle
    /\ \E cfg \in {ArbDefaults, ArbArgs(RInt(50), NoDfs)} :
          inv' = Scan("find_arb_bets", cfg, <<EventOf(quotes)>>)
    /\ UNCHANGED <<quotes, feed, prev>>

NextSpread == ScanSpread

SpecSpread == InitSpread /\ [][NextSpread]_vars

\* C30: every ArbBet on the spreads market pairs two different teams at opposite
\* points: outcome_a # outcome_b and point_a = -point_b.
C30_OppositeSpreads ==
    (inv # Idle /\ inv.fn = "find_arb_bets") =>
        \A i \in 1..Len(inv.ret.value) :
            LET b == inv.ret.value[i]
            IN  b.market = "spreads" =>
                    /\ b.outcome_a # b.outcome_b
                    /\ b.point_a # None /\ b.point_b # None
                    /\ b.point_a[1] = -b.point_b[1]


\* C27: once the tracker has recorded remaining <= low_warning, no update makes
\* can_fetch_odds true again, whatever remaining it reports; likewise
\* can_fetch_scores and can_fetch_props never turn from false to true.
C27_GatesStayClosed ==
    [][/\ ~can_fetch_odds(inv) => ~can_fetch_odds(inv')
       /\ ~can_fetch_scores(inv) => ~can_fetch_scores(inv')
       /\ ~can_fetch_props(inv) => ~can_fetch_props(inv')]_vars

\* with the default thresholds the tracker recorded 30 credits, a later response
\* reported 51, and the odds and props fetches are still blocked
C27_Witness ==
    /\ Len(feed) >= 2
    /\ inv.low_warning = 50 /\ inv.critical_stop = 10
    /\ prev.remaining = Some(30)
    /\ feed[Len(feed)].remaining = Some(51)
    /\ ~can_fetch_odds(inv) /\ ~can_fetch_props(inv)


---------------------------------------------------------------------------
(* The EV bet history (app/services/ev_store.py)                           *)
(*                                                                         *)
(* In the specification of the store, inv is the EVStore (the rows of the  *)
(* table ev_bets in insertion order and the next id), feed is the reading  *)
(* of datetime.now(), and prev is the last call with the store before it.  *)

\* str(point) of a float counted in half points: 51 is "25.5", -6 is "-3.0"
StrOfPoint(pt) ==
    (IF pt < 0 THEN "-" ELSE "") \o ToString(Abs(pt) \div 2)
        \o (IF Abs(pt) % 2 = 0 THEN ".0" ELSE ".5")

\* pt_str = str(bet.outcome_point) if bet.outcome_point is not None else ""
PtStr(point) == IF point = None THEN "" ELSE StrOfPoint(point[1])

\* player = bet.player_name or ""
PlayerStr(player_name) == IF player_name = None THEN "" ELSE player_name[1]

\* the columns of UNIQUE(book, event_id, market, outcome_name, outcome_point_str,
\* player_name), of a bet and of a row
BetKey(bet) ==
    <<bet.book, bet.event_id, bet.market, bet.outcome_name,
      PtStr(bet.outcome_point), PlayerStr(bet.player_name)>>

RowKey(r) ==
    <<r.book, r.event_id, r.market, r.outcome_name, r.outcome_point_str, r.player_name>>

\* def __init__ / _create_tables: an empty table
EVStore == [rows |-> <<>>, next_id |-> 1]

\* the VALUES of the INSERT
NewRow(id, bet, now) ==
    [id |-> id, sport_key |-> bet.sport_key, book |-> bet.book,
     book_title |-> bet.book_title, event_id |-> bet.event_id,
     home_team |-> bet.home_team, away_team |-> bet.away_team,
     market |-> bet.market, outcome_name |-> bet.outcome_name,
     outcome_point_str |-> PtStr(bet.outcome_point),
     odds |-> bet.odds, fair_odds |-> bet.fair_odds, no_vig_prob |-> bet.no_vig_prob,
     ev_percentage |-> bet.ev_percentage, edge |-> bet.edge, num_books |-> bet.num_books,
     detected_at |-> IF bet.detected_at # None THEN bet.detected_at[1] ELSE now,
     last_seen_at |-> now, is_active |-> 1,
     player_name |-> PlayerStr(bet.player_name),
     is_prop |-> IF bet.is_prop THEN 1 ELSE 0]

\* ON CONFLICT ... DO UPDATE SET
UpdatedRow(r, bet, now) ==
    [r EXCEPT !.odds = bet.odds, !.fair_odds = bet.fair_odds,
              !.no_vig_prob = bet.no_vig_prob, !.ev_percentage = bet.ev_percentage,
              !.edge = bet.edge, !.num_books = bet.num_books,
              !.last_seen_at = now, !.is_active = 1]

\* the INSERT ... ON CONFLICT of one bet that always inserts
upsert_bet_AlwaysInsert(store, bet, now) ==
    [rows |-> Append(store.rows, NewRow(store.next_id, bet, now)),
     next_id |-> store.next_id + 1]

\* the INSERT ... ON CONFLICT of one bet
upsert_bet(store, bet, now) ==
    IF \E i \in 1..Len(store.rows) : RowKey(store.rows[i]) = BetKey(bet)
    THEN [store EXCEPT !.rows = [i \in 1..Len(store.rows) |->
                                    IF RowKey(store.rows[i]) = BetKey(bet)
                                    THEN UpdatedRow(store.rows[i], bet, now)
                                    ELSE store.rows[i]]]
    ELSE [rows |-> Append(store.rows, NewRow(store.next_id, bet, now)),
          next_id |-> store.next_id + 1]

\* def upsert_bets(self, bets)
RECURSIVE upsert_bets(_, _, _)
upsert_bets(store, bets, now) ==
    IF bets = <<>> THEN store
    ELSE upsert_bets(upsert_bet(store, Head(bets), now), Tail(bets), now)

\* UPDATE ev_bets SET is_active = 0 WHERE the row is one of those selected
Deactivate(store, stale) ==
    [store EXCEPT !.rows = [i \in 1..Len(store.rows) |->
                               IF i \in stale THEN [store.rows[i] EXCEPT !.is_active = 0]
                               ELSE store.rows[i]]]

\* def mark_stale_for_sport(self, sport_key, active_event_ids)
mark_stale_for_sport(store, sport_key, active_event_ids) ==
    Deactivate(store, {i \in 1..Len(store.rows) :
                          /\ store.rows[i].sport_key = sport_key
                          /\ store.rows[i].is_active = 1
                          /\ store.rows[i].event_id \notin active_event_ids})

\* deactivate_missing without the is_prop scope
deactivate_missing_Unscoped(store, sport_key, current_bets, is_props) ==
    LET current_keys == {BetKey(current_bets[i]) : i \in 1..Len(current_bets)}
    IN  Deactivate(store, {i \in 1..Len(store.rows) :
                              /\ store.rows[i].sport_key = sport_key
                              /\ store.rows[i].is_active = 1
                              /\ RowKey(store.rows[i]) \notin current_keys})

\* def deactivate_missing(self, sport_key, current_bets, *, is_props=False)
deactivate_missing(store, sport_key, current_bets, is_props) ==
    LET prop_val == IF is_props THEN 1 ELSE 0
        rows == {i \in 1..Len(store.rows) :
                    /\ store.rows[i].sport_key = sport_key
                    /\ store.rows[i].is_active = 1
                    /\ store.rows[i].is_prop = prop_val}
        current_keys == {BetKey(current_bets[i]) : i \in 1..Len(current_bets)}
    IN  IF current_bets = <<>> THEN Deactivate(store, rows)
        ELSE Deactivate(store, {i \in rows : RowKey(store.rows[i]) \notin current_keys})

\* def get_active_for_sport(self, sport_key, limit, *, is_props=False), without
\* the computed column minutes_active
get_active_for_sport(store, sport_key, limit, is_props) ==
    LET hits == SelectSeq(store.rows,
                    LAMBDA r : /\ r.is_active = 1 /\ r.sport_key = sport_key
                               /\ r.is_prop = (IF is_props THEN 1 ELSE 0))
        sorted == SortDesc(hits, "ev_percentage")
    IN  SubSeq(sorted, 1, IF Len(sorted) < limit THEN Len(sorted) ELSE limit)


\* an EVBet as the engine or a test hands it to the store; the numbers of a
\* later scan (version 2) differ from those of the first; the first carries no
\* detected_at, the later one was detected at time 0
StoreBet(sport, book, event, market, outcome, point, player, is_prop, version) ==
    [sport_key |-> sport, book |-> book, book_title |-> book, event_id |-> event,
     home_team |-> "Lakers", away_team |-> "Celtics",
     market |-> market, outcome_name |-> outcome, outcome_point |-> point,
     odds |-> IF version = 1 THEN -150 ELSE -110,
     decimal_odds |-> IF version = 1 THEN Rat(5, 3) ELSE Rat(21, 11),
     implied_prob |-> IF version = 1 THEN Rat(3, 5) ELSE Rat(11, 21),
     no_vig_prob |-> IF version = 1 THEN Rat(63, 100) ELSE Rat(11, 20),
     fair_odds |-> IF version = 1 THEN Rat(-6300, 37) ELSE Rat(-1100, 9),
     ev_percentage |-> IF version = 1 THEN RInt(5) ELSE RInt(8),
     edge |-> IF version = 1 THEN Rat(1, 20) ELSE Rat(2, 25),
     detected_at |-> IF version = 1 THEN None ELSE Some(0),
     num_books |-> IF version = 1 THEN 4 ELSE 3,
     player_name |-> player, is_prop |-> is_prop]

GameBet(book, version) ==
    StoreBet("basketball_nba", book, "event1", "h2h", "Lakers", None, None, FALSE, version)

PropBet ==
    StoreBet("basketball_nba", "fanduel", "event1", "player_points", "Over", Some(51),
             Some("LeBron James"), TRUE, 1)

OtherSportBet ==
    StoreBet("americanfootball_nfl", "fanduel", "event9", "h2h", "Chiefs", None, None, FALSE, 1)

\* the natural key of GameBet("fanduel", _) handed over as a prop of another sport
ClashingBet ==
    StoreBet("americanfootball_nfl", "fanduel", "event1", "h2h", "Lakers", None, None, TRUE, 2)

UpsertLists ==
    { <<>>, <<GameBet("fanduel", 1)>>, <<GameBet("fanduel", 2)>>, <<GameBet("draftkings", 1)>>,
      <<PropBet>>, <<OtherSportBet>>, <<ClashingBet>>,
      <<GameBet("fanduel", 1), GameBet("draftkings", 1)>>,
      <<GameBet("fanduel", 1), PropBet>>,
      <<GameBet("fanduel", 1), GameBet("fanduel", 2)>> }

CurrentLists == { <<>>, <<GameBet("fanduel", 2)>>, <<PropBet>> }

StoreSports == {"basketball_nba", "americanfootball_nfl"}

\* the calls made on one store
MaxStoreCalls == 3

StoreCall(fn, sport_key, bets, is_props, ids) ==
    [fn |-> fn, sport_key |-> sport_key, bets |-> bets, is_props |-> is_props,
     ids |-> ids, now |-> feed, before |-> inv]

InitStore ==
    /\ quotes = {}
    /\ feed = 1
    /\ inv = EVStore
    /\ prev = Idle

UpsertBets ==
    /\ feed <= MaxStoreCalls
    /\ \E bets \in UpsertLists :
          /\ inv' = upsert_bets(inv, bets, feed)
          /\ prev' = StoreCall("upsert_bets", "", bets, FALSE, {})
    /\ feed' = feed + 1
    /\ UNCHANGED quotes

DeactivateMissing ==
    /\ feed <= MaxStoreCalls
    /\ \E sport_key \in StoreSports : \E bets \in CurrentLists : \E is_props \in BOOLEAN :
          /\ inv' = deactivate_missing(inv, sport_key, bets, is_props)
          /\ prev' = StoreCall("deactivate_missing", sport_key, bets, is_props, {})
    /\ feed' = feed + 1
    /\ UNCHANGED quotes

MarkStaleForSport ==
    /\ feed <= MaxStoreCalls
    /\ \E sport_key \in StoreSports : \E ids \in {{}, {"event1"}} :
          /\ inv' = mark_stale_for_sport(inv, sport_key, ids)
          /\ prev' = StoreCall("mark_stale_for_sport", sport_key, <<>>, FALSE, ids)
    /\ feed' = feed + 1
    /\ UNCHANGED quotes

NextStore == UpsertBets \/ DeactivateMissing \/ MarkStaleForSport

SpecStore == InitStore /\ [][NextStore]_vars

\* the natural key of a row, and the natural keys of a list of bets
NaturalKey(r) ==
    [book |-> r.book, event |-> r.event_id, market |-> r.market,
     outcome |-> r.outcome_name, point |-> r.outcome_point_str, player |-> r.player_name]

KeysOfBets(bets) ==
    {[book |-> bets[i].book, event |-> bets[i].event_id, market |-> bets[i].market,
      outcome |-> bets[i].outcome_name,
      point |-> IF bets[i].outcome_point = None THEN ""
                ELSE StrOfPoint(bets[i].outcome_point[1]),
      player |-> IF bets[i].player_name = None THEN "" ELSE bets[i].player_name[1]] :
        i \in 1..Len(bets)}

RowOfId(store, id) == CHOOSE r \in Range(store.rows) : r.id = id

\* C22: deactivate_missing(sport, current_bets, is_props) marks inactive exactly
\* the active rows of that sport and that prop scope whose natural key is not
\* among current_bets (all of them when current_bets is empty); every other row,
\* in particular every row of another sport or of the other prop scope, is left
\* as it was, and no row is added or removed.
C22_DeactivateExactlyMissing ==
    (prev # Idle /\ prev.fn = "deactivate_missing") =>
        /\ Len(inv.rows) = Len(prev.before.rows)
        /\ \A i \in 1..Len(inv.rows) :
              LET old == prev.before.rows[i]
                  new == inv.rows[i]
                  targeted == /\ old.is_active = 1
                              /\ old.sport_key = prev.sport_key
                              /\ old.is_prop = (IF prev.is_props THEN 1 ELSE 0)
                              /\ NaturalKey(old) \notin KeysOfBets(prev.bets)
              IN  IF targeted THEN new = [old EXCEPT !.is_active = 0]
                  ELSE new = old

\* deactivate_missing of the game scope with a list naming one of two active
\* game rows deactivated the other and left an active prop row of the sport
C22_Witness ==
    /\ prev # Idle /\ prev.fn = "deactivate_missing"
    /\ prev.sport_key = "basketball_nba" /\ ~prev.is_props /\ prev.bets # <<>>
    /\ \E i, j \in 1..Len(inv.rows) :
          /\ inv.rows[i].book = "draftkings" /\ prev.before.rows[i].is_active = 1
          /\ inv.rows[i].is_active = 0
          /\ inv.rows[j].is_prop = 1 /\ inv.rows[j].sport_key = "basketball_nba"
          /\ inv.rows[j].is_active = 1

\* C23: the store holds at most one row per natural key; an upsert of a key
\* that exists takes odds, fair_odds, no_vig_prob, ev_percentage, edge and
\* num_books from the bet, sets last_seen_at to the time of the call and the
\* row active, and leaves detected_at, sport_key and is_prop as first inserted.
C23_OneRowPerKey ==
    /\ \A i, j \in 1..Len(inv.rows) :
          NaturalKey(inv.rows[i]) = NaturalKey(inv.rows[j]) => i = j
    /\ (prev # Idle /\ prev.fn = "upsert_bets") =>
          \A k \in 1..Len(prev.bets) :
              LET bet == prev.bets[k]
                  last == \A m \in (k + 1)..Len(prev.bets) :
                              KeysOfBets(<<prev.bets[m]>>) # KeysOfBets(<<bet>>)
                  was == {r \in Range(prev.before.rows) : NaturalKey(r) \in KeysOfBets(<<bet>>)}
              IN  \E r \in Range(inv.rows) :
                      /\ NaturalKey(r) \in KeysOfBets(<<bet>>)
                      /\ r.is_active = 1 /\ r.last_seen_at = prev.now
                      /\ last => /\ r.odds = bet.odds /\ r.fair_odds = bet.fair_odds
                                 /\ r.no_vig_prob = bet.no_vig_prob
                                 /\ r.ev_percentage = bet.ev_percentage
                                 /\ r.edge = bet.edge /\ r.num_books = bet.num_books
                      /\ \A old \in was :
                            /\ r.id = old.id
                            /\ r.detected_at = old.detected_at
                            /\ r.sport_key = old.sport_key
                            /\ r.is_prop = old.is_prop

\* a row that had been deactivated was upserted again with a bet of another
\* sport_key and is_prop: it is active with the new odds and keeps its
\* detected_at, sport_key and is_prop
C23_Witness ==
    /\ prev # Idle /\ prev.fn = "upsert_bets" /\ prev.bets = <<ClashingBet>>
    /\ \E i \in 1..Len(prev.before.rows) :
          /\ prev.before.rows[i].is_active = 0
          /\ prev.before.rows[i].odds = -150
          /\ inv.rows[i].is_active = 1 /\ inv.rows[i].odds = -110
          /\ inv.rows[i].sport_key = "basketball_nba" /\ inv.rows[i].is_prop = 0
          /\ inv.rows[i].detected_at = prev.before.rows[i].detected_at
          /\ inv.rows[i].last_seen_at = prev.now


---------------------------------------------------------------------------
(* The orchestrator (app/services/data_service.py): fetches behind the     *)
(* budget gates and the cache                                              *)
(*                                                                         *)
(* In the specifications of the orchestrator, inv is the DataService (its  *)
(* cache, its budget tracker and its API client), feed is the reading of   *)
(* time.monotonic() in seconds, and prev is the last call with its return  *)
(* value and the service before it.                                        *)

\* Settings: the refresh intervals, in seconds
odds_refresh_interval == 300
scores_refresh_interval == 120
props_refresh_interval == 300

\* cache_key = f"{sport}:odds", f"{sport}:scores", f"{sport}:props", f"{sport}:odds:alt"
KeysOfSport(sport) == {sport \o ":odds", sport \o ":scores", sport \o ":props", sport \o ":odds:alt"}

\* class OddsAPIClient: the requests sent so far and last_credit_info
OddsAPIClient == [requests |-> <<>>, last_credit_info |-> [remaining |-> None, used |-> None]]

\* def __init__(self, settings, client, cache, budget, ev_store)
DataService(sports, low_warning, critical_stop) ==
    [cache |-> [store |-> [k \in UNION {KeysOfSport(s) : s \in sports} |-> None]],
     budget |-> BudgetTracker(low_warning, critical_stop),
     client |-> OddsAPIClient,
     ev_store |-> EVStore]

\* client.get: the request is sent; a response that is not an error sets
\* last_credit_info from its headers, an error raises before that
ClientGet(client, path, resp) ==
    [requests |-> Append(client.requests, path),
     last_credit_info |-> IF resp.ok THEN [remaining |-> resp.remaining, used |-> resp.used]
                          ELSE client.last_credit_info]

\* def _sync_budget(self)
sync_budget(ds) ==
    [ds EXCEPT !.budget = update(ds.budget, ds.client.last_credit_info.remaining,
                                 ds.client.last_credit_info.used)]

\* self.cache.get(key) or []
OrEmpty(ret) == IF ret = None THEN <<>> ELSE ret[1]

\* the common shape of fetch_scores and fetch_odds once the gate is passed: the
\* cache is read, and on a miss the endpoint is requested, the budget synced
\* and the result cached
FetchThrough(ds, key, path, ttl, now, resp) ==
    LET g == get(ds.cache, key, now)
        read == [ds EXCEPT !.cache = g.cache]
        sent == [read EXCEPT !.client = ClientGet(read.client, path, resp)]
        synced == sync_budget(sent)
    IN  IF g.ret # None THEN [ds |-> read, ret |-> g.ret[1]]
        ELSE IF resp.ok
             THEN [ds |-> [synced EXCEPT !.cache = set(synced.cache, key, resp.data, ttl, now)],
                   ret |-> resp.data]
             ELSE [ds |-> sent, ret |-> <<>>]

\* the branch taken when the gate is closed: return self.cache.get(key) or []
FetchBlocked(ds, key, now) ==
    LET g == get(ds.cache, key, now)
    IN  [ds |-> [ds EXCEPT !.cache = g.cache], ret |-> OrEmpty(g.ret)]

\* def fetch_scores(self, sport)
fetch_scores(ds, sport, now, resp) ==
    IF ~can_fetch_scores(ds.budget) THEN FetchBlocked(ds, sport \o ":scores", now)
    ELSE FetchThrough(ds, sport \o ":scores", "/sports/" \o sport \o "/scores",
                      scores_refresh_interval, now, resp)

\* fetch_odds without the budget gate
fetch_odds_Ungated(ds, sport, now, resp) ==
    FetchThrough(ds, sport \o ":odds", "/sports/" \o sport \o "/odds",
                 odds_refresh_interval, now, resp)

\* def fetch_odds(self, sport)
fetch_odds(ds, sport, now, resp) ==
    IF ~can_fetch_odds(ds.budget) THEN FetchBlocked(ds, sport \o ":odds", now)
    ELSE FetchThrough(ds, sport \o ":odds", "/sports/" \o sport \o "/odds",
                      odds_refresh_interval, now, resp)


\* Settings.props_markets: the sports with prop markets configured
props_markets == {"americanfootball_nfl", "basketball_nba", "baseball_mlb", "icehockey_nhl"}

\* the per-event requests of get_props_for_events, in the order of event_ids:
\* a failed one raises inside _fetch_one and leaves last_credit_info as it is
RECURSIVE RequestEach(_, _, _, _)
RequestEach(client, sport, event_ids, resp) ==
    IF event_ids = <<>> THEN client
    ELSE RequestEach(ClientGet(client,
                               "/sports/" \o sport \o "/events/" \o Head(event_ids) \o "/odds",
                               [resp EXCEPT !.ok = Head(event_ids) \notin resp.failed]),
                     sport, Tail(event_ids), resp)

\* the events a props fan-out returns: those fetched, in the order of event_ids
PropEvents(resp, now) ==
    LET fetched == SelectSeq(resp.event_ids, LAMBDA e : e \notin resp.failed)
    IN  [i \in 1..Len(fetched) |-> [id |-> fetched[i], fetched_at |-> now]]

\* def fetch_props(self, sport)
fetch_props(ds, sport, now, resp) ==
    LET key == sport \o ":props"
        g == get(ds.cache, key, now)
        read == [ds EXCEPT !.cache = g.cache]
        listed == [read EXCEPT !.client = ClientGet(read.client,
                                              "/sports/" \o sport \o "/events", resp)]
        fanned == [listed EXCEPT !.client = RequestEach(listed.client, sport,
                                                        resp.event_ids, resp)]
        synced == sync_budget(fanned)
        events == PropEvents(resp, now)
    IN  IF ~can_fetch_props(ds.budget) THEN FetchBlocked(ds, key, now)
        ELSE IF g.ret # None THEN [ds |-> read, ret |-> g.ret[1]]
        ELSE IF sport \notin props_markets THEN [ds |-> read, ret |-> <<>>]
        ELSE IF ~resp.ok THEN [ds |-> listed, ret |-> <<>>]
        ELSE IF resp.event_ids = <<>> THEN [ds |-> listed, ret |-> <<>>]
        ELSE [ds |-> [synced EXCEPT !.cache = set(synced.cache, key, events,
                                                  props_refresh_interval, now)],
              ret |-> events]

\* def force_refresh(self, sport)
force_refresh(ds, sport) ==
    [ds EXCEPT !.cache = invalidate(invalidate(invalidate(invalidate(ds.cache,
                            sport \o ":scores"), sport \o ":odds"),
                            sport \o ":odds:alt"), sport \o ":props")]

\* the answers of the API to the requests of one call: an error, or a body
\* with the credit headers; for the props fan-out the event ids listed and the
\* events whose request fails
Response(ok, ids, failed, remaining) ==
    [ok |-> ok, data |-> [i \in 1..Len(ids) |-> [id |-> ids[i], fetched_at |-> feed]],
     event_ids |-> ids, failed |-> failed, remaining |-> remaining, used |-> None]

Responses ==
    { Response(FALSE, <<>>, {}, None),
      Response(TRUE, <<>>, {}, None),
      Response(TRUE, <<"event1", "event2">>, {}, Some(100)),
      Response(TRUE, <<"event1", "event2">>, {"event1"}, Some(30)),
      Response(TRUE, <<"event1", "event2">>, {}, Some(5)) }

\* the calls made on one service, the seconds between two readings of the
\* clock and the readings
MaxServiceCalls == 3
ClockStep == 100
MaxTicks == 4

Sport == "basketball_nba"

ServiceCall(fn, sport, out) ==
    [fn |-> fn, sport |-> sport, ret |-> out.ret, now |-> feed, before |-> inv,
     calls |-> IF prev = Idle THEN 1 ELSE prev.calls + 1]

Called == IF prev = Idle THEN 0 ELSE prev.calls

InitService ==
    /\ quotes = {}
    /\ feed = 0
    /\ inv = DataService({Sport}, 50, 10)
    /\ prev = Idle

ServiceTick ==
    /\ feed < MaxTicks * ClockStep
    /\ feed' = feed + ClockStep
    /\ UNCHANGED <<quotes, inv, prev>>

FetchScores ==
    /\ Called < MaxServiceCalls
    /\ \E resp \in Responses :
          LET out == fetch_scores(inv, Sport, feed, resp)
          IN  inv' = out.ds /\ prev' = ServiceCall("fetch_scores", Sport, out)
    /\ UNCHANGED <<quotes, feed>>

FetchOdds ==
    /\ Called < MaxServiceCalls
    /\ \E resp \in Responses :
          LET out == fetch_odds(inv, Sport, feed, resp)
          IN  inv' = out.ds /\ prev' = ServiceCall("fetch_odds", Sport, out)
    /\ UNCHANGED <<quotes, feed>>

FetchProps ==
    /\ Called < MaxServiceCalls
    /\ \E resp \in Responses :
          LET out == fetch_props(inv, Sport, feed, resp)
          IN  inv' = out.ds /\ prev' = ServiceCall("fetch_props", Sport, out)
    /\ UNCHANGED <<quotes, feed>>

ForceRefresh ==
    /\ Called < MaxServiceCalls
    /\ inv' = force_refresh(inv, Sport)
    /\ prev' = ServiceCall("force_refresh", Sport, [ret |-> None])
    /\ UNCHANGED <<quotes, feed>>

NextService == ServiceTick \/ FetchScores \/ FetchOdds \/ FetchProps \/ ForceRefresh

SpecService == InitService /\ [][NextService]_vars

\* the gate and the cache key of a fetch
GateOpen(fn, budget) ==
    CASE fn = "fetch_odds" -> can_fetch_odds(budget)
      [] fn = "fetch_scores" -> can_fetch_scores(budget)
      [] fn = "fetch_props" -> can_fetch_props(budget)

KeyOf(fn, sport) ==
    CASE fn = "fetch_odds" -> sport \o ":odds"
      [] fn = "fetch_scores" -> sport \o ":scores"
      [] fn = "fetch_props" -> sport \o ":props"

\* the entry of the key was not expired at the time of the call
Fresh(call) ==
    LET entry == call.before.cache.store[KeyOf(call.fn, call.sport)]
    IN  entry # None /\ call.now <= entry[1].expires_at

CachedValue(call) == call.before.cache.store[KeyOf(call.fn, call.sport)][1].value

IsFetch == prev # Idle /\ prev.fn \in {"fetch_odds", "fetch_scores", "fetch_props"}

\* C21: a fetch made while its gate is closed sends no request and returns the
\* unexpired cached value of the sport, or an empty list when there is none;
\* a fetch made while its gate is open and a fresh entry is cached returns the
\* cached value and sends no request.
C21_GatedFetches ==
    IsFetch =>
        /\ ~GateOpen(prev.fn, prev.before.budget) =>
              /\ inv.client.requests = prev.before.client.requests
              /\ prev.ret = IF Fresh(prev) THEN CachedValue(prev) ELSE <<>>
        /\ (GateOpen(prev.fn, prev.before.budget) /\ Fresh(prev)) =>
              /\ inv.client.requests = prev.before.client.requests
              /\ prev.ret = CachedValue(prev)

\* odds were fetched and cached with 30 credits left, and a later fetch_odds,
\* blocked, returned the cached events without a request
C21_Witness ==
    /\ prev # Idle /\ prev.fn = "fetch_odds"
    /\ prev.before.budget.remaining = Some(30)
    /\ ~can_fetch_odds(prev.before.budget)
    /\ Fresh(prev) /\ prev.ret # <<>>
    /\ prev.ret = CachedValue(prev)
    /\ Len(inv.client.requests) = 1


---------------------------------------------------------------------------
(* The pre-game scans of the data service                                  *)

\* class Score: scores is None or the list of ScoreValue(name, score)
Score(id, home_team, completed, scores) ==
    [id |-> id, sport_key |-> "basketball_nba", home_team |-> home_team,
     completed |-> completed, scores |-> scores]

ScoreValue(name, score) == [name |-> name, score |-> score]

\* def home_score(self)
home_score(sc) ==
    LET hits == IF sc.scores = None THEN <<>>
                ELSE SelectSeq(sc.scores[1],
                               LAMBDA s : s.name = sc.home_team /\ s.score # None)
    IN  IF hits = <<>> THEN "-" ELSE Head(hits).score[1]

\* score_map = {s.id: s for s in scores}: the last entry of an id
ScoreMapGet(scores, id) ==
    LET hits == SelectSeq(scores, LAMBDA s : s.id = id)
    IN  IF hits = <<>> THEN None ELSE Some(hits[Len(hits)])

\* _filter_pre_game dropping completed events only
filter_pre_game_KeepsLive(events, scores) ==
    SelectSeq(events, LAMBDA e :
        LET sc == ScoreMapGet(scores, e.id)
        IN  sc = None \/ ~sc[1].completed)

\* def _filter_pre_game(events, scores)
filter_pre_game(events, scores) ==
    SelectSeq(events, LAMBDA e :
        LET sc == ScoreMapGet(scores, e.id)
        IN  sc = None \/ (home_score(sc[1]) = "-" /\ ~sc[1].completed))

\* the settings of the scans; book_a and book_b are the user's bookmakers
Settings ==
    [bookmakers |-> {"book_a", "book_b"}, ev_threshold |-> RInt(2),
     ev_odds_min |-> -200, ev_odds_max |-> 200, dfs_books |-> NoDfs,
     arb_enabled |-> TRUE, arb_min_profit_pct |-> Rat(1, 10),
     middle_enabled |-> TRUE, middle_min_window |-> Rat(1, 2),
     middle_max_combined_cost |-> Rat(108, 100)]

\* EVBet.detected_at: the clock of the scan
DetectedAt(bets, now) ==
    [i \in 1..Len(bets) |-> bets[i] @@ [detected_at |-> Some(now)]]

\* Once({e(x) : x \in {v}}) is e(v), with v evaluated once
Once(S) == CHOOSE x \in S : TRUE

\* the odds and the scores a scan works on: fetch_odds, then fetch_scores
FetchBoth(ds, sport, now, odds_resp, scores_resp) ==
    Once({ Once({ [ds |-> s.ds, events |-> o.ret, scores |-> s.ret,
                   pre_game |-> filter_pre_game(o.ret, s.ret)] :
                  s \in {fetch_scores(o.ds, sport, now, scores_resp)} }) :
           o \in {fetch_odds(ds, sport, now, odds_resp)} })

\* the arguments get_ev_bets passes to find_ev_bets
ScanEvArgs ==
    EvArgs(Settings.bookmakers, Settings.ev_threshold, FALSE, Settings.dfs_books,
           <<Settings.ev_odds_min, Settings.ev_odds_max>>)

\* get_ev_bets past the detector, touching the store only when bets were found
Persist_SkipsEmptyScan(f, found, sport, now) ==
    LET bets == DetectedAt(found.value, now)
        upserted == IF bets # <<>> THEN upsert_bets(f.ds.ev_store, bets, now)
                    ELSE f.ds.ev_store
    IN  IF found.raised THEN [ds |-> f.ds, raised |-> TRUE, ret |-> <<>>, scan |-> f]
        ELSE [ds |-> [f.ds EXCEPT !.ev_store = IF bets # <<>>
                                               THEN deactivate_missing(upserted, sport, bets, FALSE)
                                               ELSE upserted],
              raised |-> FALSE, ret |-> bets, scan |-> f]

\* get_ev_bets past the detector: upsert_bets if there are bets, then
\* deactivate_missing; an exception of the detector leaves the store as it was
Persist(f, found, sport, now) ==
    LET bets == DetectedAt(found.value, now)
        upserted == IF bets # <<>> THEN upsert_bets(f.ds.ev_store, bets, now)
                    ELSE f.ds.ev_store
    IN  IF found.raised THEN [ds |-> f.ds, raised |-> TRUE, ret |-> <<>>, scan |-> f]
        ELSE [ds |-> [f.ds EXCEPT !.ev_store = deactivate_missing(upserted, sport, bets, FALSE)],
              raised |-> FALSE, ret |-> bets, scan |-> f]

\* def get_ev_bets(self, sport)
get_ev_bets(ds, sport, now, odds_resp, scores_resp) ==
    Once({ Once({ Persist(f, found, sport, now) :
                  found \in {find_ev_bets(f.pre_game, ScanEvArgs)} }) :
           f \in {FetchBoth(ds, sport, now, odds_resp, scores_resp)} })

\* def get_arb_bets(self, sport)
get_arb_bets(ds, sport, now, odds_resp, scores_resp) ==
    IF ~Settings.arb_enabled
    THEN [ds |-> ds, raised |-> FALSE, ret |-> <<>>,
          scan |-> [ds |-> ds, events |-> <<>>, scores |-> <<>>, pre_game |-> <<>>]]
    ELSE Once({ Once({ [ds |-> f.ds, raised |-> found.raised, ret |-> found.value,
                        scan |-> f] :
                       found \in {find_arb_bets(f.pre_game,
                                                ArbArgs(Settings.arb_min_profit_pct,
                                                        Settings.dfs_books))} }) :
                f \in {FetchBoth(ds, sport, now, odds_resp, scores_resp)} })

\* def get_middle_bets(self, sport)
get_middle_bets(ds, sport, now, odds_resp, scores_resp) ==
    IF ~Settings.middle_enabled
    THEN [ds |-> ds, raised |-> FALSE, ret |-> <<>>,
          scan |-> [ds |-> ds, events |-> <<>>, scores |-> <<>>, pre_game |-> <<>>]]
    ELSE Once({ Once({ [ds |-> f.ds, raised |-> found.raised, ret |-> found.value,
                        scan |-> f] :
                       found \in {find_middle_bets(f.pre_game,
                                                   MiddleArgs(Settings.middle_min_window,
                                                              Settings.middle_max_combined_cost,
                                                              Settings.dfs_books))} }) :
                f \in {FetchBoth(ds, sport, now, odds_resp, scores_resp)} })

\* the answer of the API to one request: an error, or a body with the credits
\* left in its headers
ApiResponse(ok, data, remaining) ==
    [ok |-> ok, data |-> data, remaining |-> remaining, used |-> None]

\* the score entries the API lists for an event: none, scheduled, live,
\* final, live with the away score alone, final without scores
ScoreEntries(id, home_team, away_team) ==
    { <<>>,
      <<Score(id, home_team, FALSE, None)>>,
      <<Score(id, home_team, FALSE,
              Some(<<ScoreValue(home_team, Some("55")), ScoreValue(away_team, Some("50"))>>))>>,
      <<Score(id, home_team, TRUE,
              Some(<<ScoreValue(home_team, Some("101")), ScoreValue(away_team, Some("99"))>>))>>,
      <<Score(id, home_team, FALSE,
              Some(<<ScoreValue(home_team, None), ScoreValue(away_team, Some("3"))>>))>>,
      <<Score(id, home_team, TRUE, None)>> }

ScoreLists ==
    {s1 \o s2 : s1 \in ScoreEntries("event1", "Lakers", "Celtics"),
                s2 \in ScoreEntries("event2", "Bulls", "Pistons")}

\* the odds of an event: unquoted, or quoted by three books with an edge, an
\* arbitrage and a middle between them
EventOdds == { {}, SecondEvent(108, -128) }

PreGameSlates == {Tagged("event1", q1) \cup Tagged("event2", q2) : q1, q2 \in EventOdds}

\* how the two requests of a scan end
Outcomes == {<<TRUE, TRUE>>, <<FALSE, TRUE>>, <<TRUE, FALSE>>}

ScanCall(fn, out) ==
    [fn |-> fn, ret |-> out.ret, raised |-> out.raised, events |-> out.scan.events,
     scores |-> out.scan.scores, pre_game |-> out.scan.pre_game]

InitPreGame ==
    /\ quotes \in PreGameSlates
    /\ feed \in ScoreLists
    /\ inv = DataService({Sport}, 50, 10)
    /\ prev = Idle

GetEvBets ==
    /\ prev = Idle
    /\ \E ok \in Outcomes, events \in {EventsOf(quotes)} :
          \E out \in {get_ev_bets(inv, Sport, 0,
                                 ApiResponse(ok[1], events, Some(100)),
                                 ApiResponse(ok[2], feed, Some(99)))} :
              inv' = out.ds /\ prev' = ScanCall("get_ev_bets", out)
    /\ UNCHANGED <<quotes, feed>>

GetArbBets ==
    /\ prev = Idle
    /\ \E ok \in Outcomes, events \in {EventsOf(quotes)} :
          \E out \in {get_arb_bets(inv, Sport, 0,
                                  ApiResponse(ok[1], events, Some(100)),
                                  ApiResponse(ok[2], feed, Some(99)))} :
              inv' = out.ds /\ prev' = ScanCall("get_arb_bets", out)
    /\ UNCHANGED <<quotes, feed>>

GetMiddleBets ==
    /\ prev = Idle
    /\ \E ok \in Outcomes, events \in {EventsOf(quotes)} :
          \E out \in {get_middle_bets(inv, Sport, 0,
                                     ApiResponse(ok[1], events, Some(100)),
                                     ApiResponse(ok[2], feed, Some(99)))} :
              inv' = out.ds /\ prev' = ScanCall("get_middle_bets", out)
    /\ UNCHANGED <<quotes, feed>>

NextPreGame == GetEvBets \/ GetArbBets \/ GetMiddleBets

SpecPreGame == InitPreGame /\ [][NextPreGame]_vars

\* the score entry of an event is completed or shows a home score
ShowsHomeScore(s) ==
    /\ s.scores # None
    /\ \E i \in 1..Len(s.scores[1]) :
          s.scores[1][i].name = s.home_team /\ s.scores[1][i].score # None

Started(call, id) ==
    \E i \in 1..Len(call.scores) :
        /\ call.scores[i].id = id
        /\ (call.scores[i].completed \/ ShowsHomeScore(call.scores[i]))

Detected(call, events) ==
    CASE call.fn = "get_ev_bets" ->
            DetectedAt(find_ev_bets(events, EvArgs({"book_a", "book_b"}, RInt(2), FALSE,
                                                   NoDfs, <<-200, 200>>)).value, 0)
      [] call.fn = "get_arb_bets" -> find_arb_bets(events, ArbDefaults).value
      [] call.fn = "get_middle_bets" -> find_middle_bets(events, MiddleDefaults).value

\* C25: the scans analyse pre-game events only: an event whose score entry is
\* completed or shows a home score is left out before detection, an event
\* without a score entry is kept, and no opportunity returned refers to an
\* event that is live or completed.
C25_PreGameOnly ==
    prev # Idle =>
        /\ prev.pre_game = SelectSeq(prev.events, LAMBDA e : ~Started(prev, e.id))
        /\ \A i \in 1..Len(prev.events) :
              (\A j \in 1..Len(prev.scores) : prev.scores[j].id # prev.events[i].id)
                 => prev.events[i] \in Range(prev.pre_game)
        /\ prev.ret = Detected(prev, SelectSeq(prev.events, LAMBDA e : ~Started(prev, e.id)))
        /\ \A i \in 1..Len(prev.ret) : ~Started(prev, prev.ret[i].event_id)

\* both events are quoted, the first is live and the second has no score
\* entry: the opportunities returned are all of the second
C25_Witness ==
    /\ prev # Idle
    /\ quotes = Tagged("event1", SecondEvent(108, -128)) \cup Tagged("event2", SecondEvent(108, -128))
    /\ Len(prev.events) = 2 /\ Len(prev.pre_game) = 1
    /\ Started(prev, "event1") /\ ~prev.scores[1].completed
    /\ Len(prev.scores) = 1
    /\ prev.ret # <<>>
    /\ \A i \in 1..Len(prev.ret) : prev.ret[i].event_id = "event2"


---------------------------------------------------------------------------
(* Repeated +EV scans of one sport and the history they keep               *)

\* the scans made on one service and the seconds that pass before a scan:
\* none, or enough for the cached odds and scores to expire
MaxScans == 2
Waits == {0, 4 * ClockStep}

\* the entry the scores feed lists for the first event once it has started
LiveScore ==
    Score("event1", "Lakers", FALSE,
          Some(<<ScoreValue("Lakers", Some("55")), ScoreValue("Celtics", Some("50"))>>))

\* how the requests of a scan end: answered with many or few credits left, or
\* the odds request failing
ScanAnswers == {<<TRUE, Some(100)>>, <<TRUE, Some(5)>>, <<FALSE, None>>}

\* the history at the start: rows of an earlier prop scan and of another
\* sport, with or without a game bet of this sport no later scan finds again
Histories ==
    { upsert_bets(EVStore, <<PropBet, OtherSportBet>>, 0),
      upsert_bets(EVStore, <<PropBet, OtherSportBet, GameBet("book_c", 2)>>, 0) }

InitScan ==
    /\ quotes = Tagged("event1", SecondEvent(108, -128))
                    \cup Tagged("event2", SecondEvent(108, -128))
    /\ feed = [now |-> 0, scores |-> <<>>]
    /\ \E h \in Histories : inv = [DataService({Sport}, 50, 10) EXCEPT !.ev_store = h]
    /\ prev = Idle

\* the first event starts
KickOff ==
    /\ feed.scores = <<>>
    /\ feed' = [feed EXCEPT !.scores = <<LiveScore>>]
    /\ UNCHANGED <<quotes, inv, prev>>

ScanEvBets ==
    /\ Called < MaxScans
    /\ \E wait \in Waits, answer \in ScanAnswers, events \in {EventsOf(quotes)} :
          \E out \in {get_ev_bets(inv, Sport, feed.now + wait,
                                 ApiResponse(answer[1], events, answer[2]),
                                 ApiResponse(TRUE, feed.scores, answer[2]))} :
              /\ inv' = out.ds
              /\ feed' = [feed EXCEPT !.now = feed.now + wait]
              /\ prev' = [fn |-> "get_ev_bets", sport |-> Sport, ret |-> out.ret,
                          raised |-> out.raised, before |-> inv, calls |-> Called + 1]
    /\ UNCHANGED quotes

NextScan == KickOff \/ ScanEvBets

SpecScan == InitScan /\ [][NextScan]_vars

\* the natural keys of the active rows of a sport, game bets or props
ActiveKeys(store, sport_key, is_prop) ==
    {NaturalKey(r) : r \in {x \in Range(store.rows) :
                              x.sport_key = sport_key /\ x.is_active = 1
                              /\ x.is_prop = is_prop}}

\* the rows a game scan of the sport has no business with
Foreign(store, sport_key) ==
    {r \in Range(store.rows) : r.is_prop = 1 \/ r.sport_key # sport_key}

\* C26: after a completed get_ev_bets(sport) the active game rows of the sport
\* are exactly the bets the scan returned, by natural key; a scan that returned
\* nothing leaves no game row of the sport active; prop rows and the rows of
\* other sports are as they were.
C26_ActiveRowsAreLastScan ==
    (prev # Idle /\ ~prev.raised) =>
        /\ ActiveKeys(inv.ev_store, prev.sport, 0) = KeysOfBets(prev.ret)
        /\ prev.ret = <<>> => ActiveKeys(inv.ev_store, prev.sport, 0) = {}
        /\ Foreign(inv.ev_store, prev.sport) = Foreign(prev.before.ev_store, prev.sport)

\* a scan that found nothing, its odds fetch failed or blocked, deactivated
\* the bets an earlier scan had stored, next to an active prop row
C26_Witness ==
    /\ prev # Idle /\ prev.calls = 2
    /\ prev.ret = <<>>
    /\ ActiveKeys(prev.before.ev_store, Sport, 0) # {}
    /\ ActiveKeys(inv.ev_store, Sport, 0) = {}
    /\ ActiveKeys(inv.ev_store, Sport, 1) # {}


---------------------------------------------------------------------------
(* Alternate lines: the fan-out of fetch_alt_lines and the merge           *)

props_max_concurrent == 5

\* the events of the slate and the credits the API has left at the start
NumEvents == 6
StartCredits == 53
MaxRefreshes == 2

EventIds == [i \in 1..NumEvents |-> "event" \o ToString(i)]

\* the featured odds of the slate: every event quoted by book_a and book_b
FeaturedBook(key) ==
    [key |-> key, title |-> key,
     markets |-> <<[key |-> "totals",
                    outcomes |-> <<OutcomeOdds("Over", -110, Some(441), None),
                                   OutcomeOdds("Under", -110, Some(441), None)>>]>>]

AltSlate ==
    [i \in 1..NumEvents |->
        [id |-> EventIds[i], sport_key |-> Sport, home_team |-> "Lakers",
         away_team |-> "Celtics",
         bookmakers |-> <<FeaturedBook("book_a"), FeaturedBook("book_b")>>]]

AltMarket(key) ==
    [key |-> key,
     outcomes |-> <<OutcomeOdds("Over", -110, Some(451), None),
                    OutcomeOdds("Under", -110, Some(451), None)>>]

\* the bookmakers of the event get_event_odds returns for ALT_MARKETS: one the
\* featured odds have, one they have not, one without markets
AltBookmakers ==
    << [key |-> "book_a", title |-> "book_a", markets |-> <<AltMarket("alternate_totals")>>],
       [key |-> "book_d", title |-> "book_d", markets |-> <<AltMarket("alternate_spreads")>>],
       [key |-> "book_e", title |-> "book_e", markets |-> <<>>] >>

\* alt_data[event_id]: the bookmakers that have markets
AltEntries(event_id) ==
    [event_id |-> event_id,
     books |-> SelectSeq(AltBookmakers, LAMBDA bm : bm.markets # <<>>)]

\* the loop over book_entries of _merge_alt_data: base_books is built once
\* from the bookmakers the event has before the loop
RECURSIVE MergeBooks(_, _, _)
MergeBooks(event, base_keys, book_entries) ==
    IF book_entries = <<>> THEN event
    ELSE LET entry == Head(book_entries)
             last == CHOOSE i \in 1..Len(event.bookmakers) :
                        /\ event.bookmakers[i].key = entry.key
                        /\ \A j \in 1..Len(event.bookmakers) :
                              event.bookmakers[j].key = entry.key => j <= i
             merged ==
                IF entry.key \in base_keys
                THEN [event EXCEPT !.bookmakers[last].markets = @ \o entry.markets]
                ELSE [event EXCEPT !.bookmakers = Append(@, entry)]
         IN  MergeBooks(merged, base_keys, Tail(book_entries))

\* def _merge_alt_data(events, alt_data): the events as the call leaves them
RECURSIVE merge_alt_data(_, _)
merge_alt_data(events, alt_data) ==
    IF alt_data = <<>> THEN events
    ELSE LET entry == Head(alt_data)
             merged == [i \in 1..Len(events) |->
                          IF events[i].id = entry.event_id
                          THEN MergeBooks(events[i],
                                          {events[i].bookmakers[b].key :
                                              b \in 1..Len(events[i].bookmakers)},
                                          entry.books)
                          ELSE events[i]]
         IN  merge_alt_data(merged, Tail(alt_data))

\* the events handed to _merge_alt_data are the objects the odds cache holds:
\* what the merge does to them, it does to the cached value
MergeCached(ds, sport, events, alt_data) ==
    LET key == sport \o ":odds"
        merged == merge_alt_data(events, alt_data)
    IN  [ds |-> IF ds.cache.store[key] = None THEN ds
                ELSE [ds EXCEPT !.cache.store[key] =
                          Some([ds.cache.store[key][1] EXCEPT !.value = merged])],
         events |-> merged]

\* one task of the fan-out: waiting for the semaphore, its request in flight,
\* done or failed; low tells whether the tracker had recorded remaining <=
\* low_warning when its request was sent, header the credits its answer shows
Task(state, low, header) == [state |-> state, low |-> low, header |-> header]

InFlight(tasks) == {i \in DOMAIN tasks : tasks[i].state = "in_flight"}
Waiting(tasks) == {i \in DOMAIN tasks : tasks[i].state = "waiting"}

\* alt_data of a fan-out: the entries of the events fetched
AltData(tasks) ==
    LET fetched == SelectSeq(EventIds, LAMBDA id :
                       \E i \in DOMAIN tasks : EventIds[i] = id /\ tasks[i].state = "done")
    IN  [i \in 1..Len(fetched) |-> AltEntries(fetched[i])]

\* client.get up to the await of the response
ClientSend(client, path) == [client EXCEPT !.requests = Append(@, path)]

\* _fetch_one past "async with sem": the per-event request is sent
RECURSIVE SendRequests(_, _, _)
SendRequests(call, ds, ids) ==
    IF ids = {} THEN [call |-> call, ds |-> ds]
    ELSE LET i == CHOOSE x \in ids : \A y \in ids : x <= y
             credits == call.credits - 1
             sent == [ds EXCEPT !.client = ClientSend(ds.client,
                          "/sports/" \o Sport \o "/events/" \o EventIds[i] \o "/odds")]
         IN  SendRequests([call EXCEPT !.credits = credits,
                                       !.tasks[i] = Task("in_flight", is_low(ds.budget), credits)],
                          sent, ids \ {i})

\* def fetch_alt_lines(self, sport, events) up to the gather of the tasks:
\* the tasks that find the semaphore free send their request at once
fetch_alt_lines(call, ds, sport, events, now) ==
    LET key == sport \o ":odds:alt"
        g == get(ds.cache, key, now)
        read == [ds EXCEPT !.cache = g.cache]
        hit == MergeCached(read, sport, events, g.ret[1])
        waiting == [call EXCEPT !.tasks = [i \in 1..Len(events) |-> Task("waiting", FALSE, 0)],
                                !.pc = "gather", !.events = events]
        first == {i \in 1..Len(events) : i <= props_max_concurrent}
    IN  IF events = <<>> THEN [call |-> [call EXCEPT !.pc = "done", !.events = events], ds |-> ds]
        ELSE IF g.ret # None
             THEN [call |-> [call EXCEPT !.pc = "done", !.events = hit.events], ds |-> hit.ds]
        ELSE IF ~can_fetch_odds(ds.budget)
             THEN [call |-> [call EXCEPT !.pc = "done", !.events = events], ds |-> read]
        ELSE SendRequests(waiting, read, first)

\* def get_game_rows(self, sport) with alt_lines_enabled, up to the gather
get_game_rows(call, ds, sport, now, scores_resp, odds_resp) ==
    LET s == fetch_scores(ds, sport, now, scores_resp)
        o == fetch_odds(s.ds, sport, now, odds_resp)
    IN  fetch_alt_lines(call, o.ds, sport, o.ret, now)

Refreshed == IF prev = Idle THEN 0 ELSE prev.calls
Pc == IF prev = Idle THEN "idle" ELSE prev.pc

InitAlt ==
    /\ quotes = {}
    /\ feed = 0
    /\ inv = DataService({Sport}, 50, 10)
    /\ prev = Idle

\* a refresh of the games view starts
BeginGameRows ==
    /\ Pc \in {"idle", "done"}
    /\ Refreshed < MaxRefreshes
    /\ \E wait \in Waits, ok \in BOOLEAN :
          LET now == feed + wait
              credits == IF prev = Idle THEN StartCredits ELSE prev.credits
              call == [fn |-> "get_game_rows", pc |-> "begin", calls |-> Refreshed + 1,
                       credits |-> credits, events |-> <<>>, tasks |-> <<>>]
              out == get_game_rows(call, inv, Sport, now,
                                   ApiResponse(TRUE, <<>>, Some(credits)),
                                   ApiResponse(ok, AltSlate, Some(credits)))
          IN  feed' = now /\ inv' = out.ds /\ prev' = out.call
    /\ UNCHANGED quotes

\* a task waiting for the semaphore gets it and sends its request
StartRequest ==
    /\ prev # Idle /\ prev.pc = "gather"
    /\ Waiting(prev.tasks) # {}
    /\ Cardinality(InFlight(prev.tasks)) < props_max_concurrent
    /\ LET i == CHOOSE x \in Waiting(prev.tasks) : \A y \in Waiting(prev.tasks) : x <= y
           out == SendRequests(prev, inv, {i})
       IN  inv' = out.ds /\ prev' = out.call
    /\ UNCHANGED <<quotes, feed>>

\* the answer to a request arrives: last_credit_info, _sync_budget, alt_data
RequestDone ==
    /\ prev # Idle /\ prev.pc = "gather"
    /\ \E i \in InFlight(prev.tasks) :
          LET got == [inv EXCEPT !.client.last_credit_info =
                          [remaining |-> Some(prev.tasks[i].header), used |-> None]]
          IN  /\ inv' = sync_budget(got)
              /\ prev' = [prev EXCEPT !.tasks[i].state = "done"]
    /\ UNCHANGED <<quotes, feed>>

\* a request fails: the exception is logged inside _fetch_one
RequestFailed ==
    /\ prev # Idle /\ prev.pc = "gather"
    /\ \E i \in InFlight(prev.tasks) : prev' = [prev EXCEPT !.tasks[i].state = "failed"]
    /\ UNCHANGED <<quotes, feed, inv>>

\* the gather returns: alt_data is cached and merged
EndGameRows ==
    /\ prev # Idle /\ prev.pc = "gather"
    /\ \A i \in DOMAIN prev.tasks : prev.tasks[i].state \in {"done", "failed"}
    /\ LET alt_data == AltData(prev.tasks)
           cached == [inv EXCEPT !.cache = set(inv.cache, Sport \o ":odds:alt", alt_data,
                                               odds_refresh_interval, feed)]
           out == MergeCached(cached, Sport, prev.events, alt_data)
       IN  IF alt_data = <<>>
           THEN inv' = inv /\ prev' = [prev EXCEPT !.pc = "done"]
           ELSE inv' = out.ds /\ prev' = [prev EXCEPT !.pc = "done", !.events = out.events]
    /\ UNCHANGED <<quotes, feed>>

NextAlt == BeginGameRows \/ StartRequest \/ RequestDone \/ RequestFailed \/ EndGameRows

SpecAlt == InitAlt /\ [][NextAlt]_vars

\* how often a bookmaker of an event holds a market
Copies(bm, market_key) ==
    Cardinality({m \in 1..Len(bm.markets) : bm.markets[m].key = market_key})

\* C29: merging the alternate lines is idempotent over refreshes: whenever a
\* refresh has completed, every bookmaker of every event holds each alternate
\* market at most once.
C29_MergeIdempotent ==
    (prev # Idle /\ prev.pc = "done") =>
        \A e \in 1..Len(prev.events) :
            \A b \in 1..Len(prev.events[e].bookmakers) :
                \A k \in {"alternate_spreads", "alternate_totals"} :
                    Copies(prev.events[e].bookmakers[b], k) <= 1

\* C28: no per-event request of the fan-out is sent after the tracker has
\* recorded remaining <= low_warning.
C28_FanOutGated ==
    prev # Idle =>
        \A i \in DOMAIN prev.tasks :
            prev.tasks[i].state # "waiting" => ~prev.tasks[i].low


---------------------------------------------------------------------------
(* The fan-out of get_props_for_events                                     *)

\* the event ids and the max_concurrent a call is made with
EventIdLists ==
    { <<>>, <<"event1">>, <<"event1", "event2">>, <<"event3", "event1", "event2">>,
      <<"event1", "event2", "event3", "event4">> }

ConcurrencyLimits == {1, 2, 5}

\* asyncio.Semaphore(max_concurrent) that lets every task in
sem_free_Unbounded(tasks, max_concurrent) == TRUE

\* asyncio.Semaphore(max_concurrent): a task can enter "async with sem"
sem_free(tasks, max_concurrent) ==
    Cardinality({i \in DOMAIN tasks : tasks[i] = "in_flight"}) < max_concurrent

\* [e for e in results if e is not None]: gather keeps the order of event_ids
props_results(event_ids, tasks) ==
    LET done == SelectSeq([i \in 1..Len(event_ids) |-> i], LAMBDA i : tasks[i] = "done")
    IN  [k \in 1..Len(done) |-> [id |-> event_ids[done[k]]]]

InitFanOut ==
    /\ quotes = {}
    /\ feed = NoFeed
    /\ inv = OddsAPIClient
    /\ prev = Idle

\* get_props_for_events is called: the semaphore and one task per event id
CallPropsForEvents ==
    /\ prev = Idle
    /\ \E event_ids \in EventIdLists, max_concurrent \in ConcurrencyLimits :
          prev' = [fn |-> "get_props_for_events", pc |-> "gather", event_ids |-> event_ids,
                   max_concurrent |-> max_concurrent,
                   tasks |-> [i \in 1..Len(event_ids) |-> "waiting"],
                   raised |-> FALSE, ret |-> <<>>]
    /\ UNCHANGED <<quotes, feed, inv>>

\* the first task waiting enters the semaphore and sends its request
FetchOneStarts ==
    /\ prev # Idle /\ prev.pc = "gather"
    /\ \E i \in DOMAIN prev.tasks :
          /\ prev.tasks[i] = "waiting"
          /\ \A j \in DOMAIN prev.tasks : prev.tasks[j] = "waiting" => i <= j
          /\ sem_free(prev.tasks, prev.max_concurrent)
          /\ prev' = [prev EXCEPT !.tasks[i] = "in_flight"]
          /\ inv' = ClientSend(inv, "/sports/" \o Sport \o "/events/"
                                        \o prev.event_ids[i] \o "/odds")
    /\ UNCHANGED <<quotes, feed>>

\* get_event_odds returns the event
FetchOneReturns(i) ==
    /\ prev # Idle /\ prev.pc = "gather"
    /\ i \in DOMAIN prev.tasks /\ prev.tasks[i] = "in_flight"
    /\ prev' = [prev EXCEPT !.tasks[i] = "done"]
    /\ UNCHANGED <<quotes, feed, inv>>

\* get_event_odds raises (an HTTP error, the timeout of the client, a body
\* that does not parse): _fetch_one logs it and returns None
FetchOneFails(i) ==
    /\ prev # Idle /\ prev.pc = "gather"
    /\ i \in DOMAIN prev.tasks /\ prev.tasks[i] = "in_flight"
    /\ prev' = [prev EXCEPT !.tasks[i] = "failed"]
    /\ UNCHANGED <<quotes, feed, inv>>

\* every task has returned: gather returns and the results are filtered
PropsForEventsReturns ==
    /\ prev # Idle /\ prev.pc = "gather"
    /\ \A i \in DOMAIN prev.tasks : prev.tasks[i] \in {"done", "failed"}
    /\ prev' = [prev EXCEPT !.pc = "returned",
                            !.ret = props_results(prev.event_ids, prev.tasks)]
    /\ UNCHANGED <<quotes, feed, inv>>

TaskIndexes == 1..4

NextFanOut ==
    \/ CallPropsForEvents
    \/ FetchOneStarts
    \/ \E i \in TaskIndexes : FetchOneReturns(i)
    \/ \E i \in TaskIndexes : FetchOneFails(i)
    \/ PropsForEventsReturns

\* the event loop runs a task that is ready, and a request in flight ends,
\* with an answer or with an exception, within the timeout of the client
SpecFanOut ==
    /\ InitFanOut /\ [][NextFanOut]_vars
    /\ WF_vars(FetchOneStarts)
    /\ WF_vars(PropsForEventsReturns)
    /\ \A i \in TaskIndexes : WF_vars(FetchOneReturns(i) \/ FetchOneFails(i))

Gathering == prev # Idle /\ prev.pc = "gather"
PropsReturned == prev # Idle /\ prev.pc = "returned"

\* the events of the ids whose request was answered, in the order of event_ids
Fetched(call) ==
    LET ids == SelectSeq(call.event_ids, LAMBDA e :
                   \E i \in DOMAIN call.tasks : call.event_ids[i] = e /\ call.tasks[i] = "done")
    IN  [k \in 1..Len(ids) |-> [id |-> ids[k]]]

\* C24: get_props_for_events never has more than max_concurrent requests in
\* flight; a request that fails changes no other task and does not fail the
\* call; the call always completes and returns exactly the events fetched, in
\* the order of event_ids.
C24_BoundedResilientFanOut ==
    /\ [](Gathering =>
            Cardinality({i \in DOMAIN prev.tasks : prev.tasks[i] = "in_flight"})
                <= prev.max_concurrent)
    /\ [][\A i \in TaskIndexes : FetchOneFails(i) =>
            /\ prev'.pc = "gather" /\ ~prev'.raised
            /\ \A j \in DOMAIN prev.tasks : j # i => prev'.tasks[j] = prev.tasks[j]]_vars
    /\ [](PropsReturned => ~prev.raised /\ prev.ret = Fetched(prev))
    /\ (Gathering ~> PropsReturned)

\* three events with two requests at a time: the call returned the first and
\* the second although the request of the third event, listed first, failed
C24_Witness ==
    /\ PropsReturned
    /\ prev.event_ids = <<"event3", "event1", "event2">> /\ prev.max_concurrent = 2
    /\ prev.tasks = <<"failed", "done", "done">>
    /\ prev.ret = <<[id |-> "event1"], [id |-> "event2"]>>
    /\ Len(inv.requests) = 3

=============================================================================
